---- MODULE Spec2Model ----
(***************************************************************************)
(* Out-of-band invitation lifecycle of OutOfBandApi                        *)
(* (src/unnamed/part_000): createInvitation, receiveInvitation,            *)
(* receiveImplicitInvitation, acceptInvitation, deleteById, the handshake  *)
(* reuse wait and the deferred delivery of attached requests.              *)
(*                                                                         *)
(* One API call is in flight at a time (variable call); a call advances in *)
(* steps that are cut at the awaits of the code, and the collaborators     *)
(* (connections, reuse-accepted signals, timers) move between the steps.   *)
(* An optional value is a sequence of length 0 (undefined) or 1.           *)
(* Payload fields that no branch reads (label, alias, imageUrl, goal,      *)
(* goalCode, accept, appendedAttachments, autoAcceptConnection) are left   *)
(* out of the records.                                                     *)
(***************************************************************************)
EXTENDS Integers, Sequences, FiniteSets, TLC

VARIABLES
    registry,      \* messageHandlerRegistry: supported protocol URIs, in registration order
    store,         \* persisted OutOfBandRecords
    connections,   \* ConnectionRecords of the connections module, in discovery order
    made,          \* how many records createInvitation and _receiveInvitation have built
    call,          \* the API call in flight: operation, position, outcome
    config,        \* the arguments of the call in flight
    local,         \* the local variables of the call in flight
    effects,       \* what the call in flight has done so far, in order
    reuseWait,     \* the reuse-accepted subscription of handleHandshakeReuse
    readyWaits,    \* the returnWhenIsConnected waits registered by acceptInvitation
    parked         \* the API calls suspended at an await while another call runs

vars == <<registry, store, connections, made, call, config, local, effects,
          reuseWait, readyWaits, parked>>

(***************************************************************************)
(* Bounds of the model                                                     *)
(***************************************************************************)
MaxCreated == 1

MaxReceived == 2

MaxConnections == 2

\* how many calls may wait at an await while another call runs
MaxParked == 1

(***************************************************************************)
(* Optional values and small helpers                                       *)
(***************************************************************************)
Undefined == <<>>

Some(v) == <<v>>

IsDefined(o) == o # <<>>

\* a ?? b
OrElse(o, d) == IF o = <<>> THEN d ELSE o[1]

Range(s) == {s[i] : i \in 1..Len(s)}

\* Array.prototype.find: the first element satisfying Test, as an optional value
Find(s, Test(_)) ==
    LET hits == {i \in 1..Len(s) : Test(s[i])}
    IN IF hits = {} THEN Undefined
       ELSE Some(s[CHOOSE i \in hits : \A j \in hits : i <= j])

\* Array.prototype.filter
Filter(s, Test(_)) ==
    LET f[i \in 0..Len(s)] ==
            IF i = 0 THEN <<>>
            ELSE IF Test(s[i]) THEN Append(f[i - 1], s[i])
            ELSE f[i - 1]
    IN f[Len(s)]

\* Array.prototype.reduce with [...aggr, ...x]: the concatenation of the elements
Flatten(ss) ==
    LET f[i \in 0..Len(ss)] == IF i = 0 THEN <<>> ELSE f[i - 1] \o ss[i]
    IN f[Len(ss)]

\* the strings of a sequence joined
RECURSIVE Concat(_)
Concat(ss) == IF ss = <<>> THEN "" ELSE ss[1] \o Concat(Tail(ss))

(***************************************************************************)
(* Handshake protocols                                                     *)
(***************************************************************************)
DidExchangeFamily == "https://didcomm.org/didexchange"

ConnectionsFamily == "https://didcomm.org/connections"

\* a protocol URI is family/version; startsWith(family) reads the family part
ProtocolUri(family, version) == [family |-> family, version |-> version]

DidExchange == ProtocolUri(DidExchangeFamily, "1.x")

Connections == ProtocolUri(ConnectionsFamily, "1.x")

\* a protocol no agent of the model registers
TrustPing == ProtocolUri("https://didcomm.org/trust_ping", "1.0")

StartsWith(p, family) == p.family = family

\* the agents the model is run for
RegistryChoices == {<<>>, <<DidExchange>>, <<Connections, DidExchange>>}

handshakeMessageFamilies == <<DidExchangeFamily, ConnectionsFamily>>

filterSupportedProtocolsByMessageFamilies(families) ==
    Filter(registry, LAMBDA p : \E i \in 1..Len(families) : StartsWith(p, families[i]))

\* getSupportedHandshakeProtocols without its throw: one protocol per family,
\* in the order of handshakeMessageFamilies
OrderedProtocols ==
    LET handshakeProtocols == filterSupportedProtocolsByMessageFamilies(handshakeMessageFamilies)
        found == [i \in 1..Len(handshakeMessageFamilies) |->
                     Find(handshakeProtocols,
                          LAMBDA p : StartsWith(p, handshakeMessageFamilies[i]))]
    IN Flatten(found)

\* getSupportedHandshakeProtocols: an error or the ordered list
getSupportedHandshakeProtocols ==
    IF Len(filterSupportedProtocolsByMessageFamilies(handshakeMessageFamilies)) = 0
    THEN [error |-> "NoHandshakeProtocolSupported", value |-> <<>>]
    ELSE [error |-> "", value |-> OrderedProtocols]

areHandshakeProtocolsSupported(handshakeProtocols) ==
    \A i \in 1..Len(handshakeProtocols) :
        handshakeProtocols[i] \in Range(getSupportedHandshakeProtocols.value)

\* assertHandshakeProtocols: "" when it returns, else the error it throws
assertHandshakeProtocols(handshakeProtocols) ==
    IF getSupportedHandshakeProtocols.error # "" THEN getSupportedHandshakeProtocols.error
    ELSE IF ~areHandshakeProtocolsSupported(handshakeProtocols)
    THEN "RequestedHandshakeProtocolsNotSupported"
    ELSE ""

\* getFirstSupportedProtocol in the order of the supported protocols
getFirstSupportedProtocolLocalOrder(handshakeProtocols) ==
    LET supported == getSupportedHandshakeProtocols
        handshakeProtocol == Find(supported.value, LAMBDA p : p \in Range(handshakeProtocols))
    IN IF supported.error # "" THEN [error |-> supported.error, value |-> Undefined]
       ELSE IF ~IsDefined(handshakeProtocol)
       THEN [error |-> "InvitationHandshakeProtocolsNotSupported", value |-> Undefined]
       ELSE [error |-> "", value |-> handshakeProtocol]

\* lines 787-796
getFirstSupportedProtocol(handshakeProtocols) ==
    LET supported == getSupportedHandshakeProtocols
        handshakeProtocol == Find(handshakeProtocols, LAMBDA p : p \in Range(supported.value))
    IN IF supported.error # "" THEN [error |-> supported.error, value |-> Undefined]
       ELSE IF ~IsDefined(handshakeProtocol)
       THEN [error |-> "InvitationHandshakeProtocolsNotSupported", value |-> Undefined]
       ELSE [error |-> "", value |-> handshakeProtocol]

(***************************************************************************)
(* Keys, services, routing                                                 *)
(***************************************************************************)
Keys == {"k1", "k2", "k3"}

\* Key.fingerprint
Fingerprint(key) == "z6Mk-" \o key

\* Key.fromFingerprint
KeyFromFingerprint(fingerprint) == CHOOSE k \in Keys : Fingerprint(k) = fingerprint

\* new DidKey(key).did
DidKeyDid(key) == "did:key:" \o Fingerprint(key)

\* DidKey.fromDid(did).key
DidKeyFromDid(did) == CHOOSE k \in Keys : DidKeyDid(k) = did

\* a service of an invitation: an inline OutOfBandDidCommService or a did (a string)
OutOfBandDidCommService(id, serviceEndpoint, recipientKeys, routingKeys) ==
    [kind |-> "inline", did |-> "", id |-> id, serviceEndpoint |-> serviceEndpoint,
     recipientKeys |-> recipientKeys, routingKeys |-> routingKeys]

DidService(did) ==
    [kind |-> "did", did |-> did, id |-> "", serviceEndpoint |-> "",
     recipientKeys |-> <<>>, routingKeys |-> <<>>]

Routing(recipientKey, routingKeys, endpoints, mediatorId) ==
    [recipientKey |-> recipientKey, routingKeys |-> routingKeys,
     endpoints |-> endpoints, mediatorId |-> mediatorId]

DirectRouting == Routing("k1", <<>>, <<"https://agent.example">>, Undefined)

MediatedRouting ==
    Routing("k2", <<"k3">>, <<"https://mediator.example", "wss://mediator.example">>,
            Some("mediator-1"))

\* what routingService.getRouting may hand out
RoutingServiceChoices == {DirectRouting, MediatedRouting}

\* didCommDocumentService.resolveServicesFromDid: the recipient keys of the
\* services the did document of a public did declares
PublicDids == {"did:sov:public"}

ResolvedRecipientKeys(did) == <<"k3">>

(***************************************************************************)
(* Messages, invitations, records                                          *)
(***************************************************************************)
\* messageHandlerRegistry.supportedMessageTypes
supportedMessageTypes == {"offer-credential", "request-presentation"}

\* a DIDComm v1 message: its type, and whether it carries a ~service decorator
Message(type, service) == [type |-> type, service |-> service]

\* supportsIncomingMessageType(parseMessageType(getPlaintextMessageType(message)), type)
supportsIncomingMessageType(message, type) == message.type = type

\* OutOfBandInvitation: id, services, handshake_protocols?, requests~attach?
OutOfBandInvitation(id, services, handshakeProtocols, requests) ==
    [type |-> "OutOfBandInvitation", id |-> id, services |-> services,
     handshakeProtocols |-> handshakeProtocols, requests |-> requests]

\* OutOfBandInvitation.addRequest: the message is wrapped into an attachment
addRequest(invitation, message) ==
    [invitation EXCEPT !.requests =
        Some(OrElse(invitation.requests, <<>>) \o <<[data |-> message]>>)]

\* OutOfBandInvitation.getRequests: the attachments unwrapped, undefined when there are none stored
getRequests(invitation) ==
    IF ~IsDefined(invitation.requests) THEN Undefined
    ELSE Some([i \in 1..Len(invitation.requests[1]) |-> invitation.requests[1][i].data])

\* OutOfBandInvitation.getServices
getServices(invitation) == invitation.services

\* V2OutOfBandInvitation: id and attachments only
V2OutOfBandInvitation(id, attachments) ==
    [type |-> "V2OutOfBandInvitation", id |-> id, attachments |-> attachments]

\* ConnectionInvitationMessage, the invitation of RFC 0160: one inline service
ConnectionInvitationMessage(id, serviceEndpoint, recipientKeys, routingKeys) ==
    [type |-> "ConnectionInvitationMessage", id |-> id, serviceEndpoint |-> serviceEndpoint,
     recipientKeys |-> recipientKeys, routingKeys |-> routingKeys]

\* helpers.convertToNewInvitation: the same id, the one service inline, and the
\* connections protocol as the only handshake protocol
convertToNewInvitation(oldInvitation) ==
    OutOfBandInvitation(
        oldInvitation.id,
        <<OutOfBandDidCommService("#inline", oldInvitation.serviceEndpoint,
              [i \in 1..Len(oldInvitation.recipientKeys) |->
                  DidKeyDid(oldInvitation.recipientKeys[i])],
              [i \in 1..Len(oldInvitation.routingKeys) |->
                  DidKeyDid(oldInvitation.routingKeys[i])])>>,
        Some(<<Connections>>),
        Undefined)

\* OutOfBandInvitation.invitationDids: one did per service, the did itself or
\* the peer did that encodes the inline service
InvitationDids(invitation) ==
    [i \in 1..Len(invitation.services) |->
        IF invitation.services[i].kind = "did" THEN invitation.services[i].did
        ELSE "did:peer:2." \o invitation.services[i].serviceEndpoint
             \o Concat([k \in 1..Len(invitation.services[i].recipientKeys) |->
                           "." \o invitation.services[i].recipientKeys[k]])]

NoInvitation == Undefined

\* new OutOfBandRecord(props); implicit is not a field of the code: it remembers
\* whether the record came from receiveImplicitInvitation
OutOfBandRecord(id, role, state, invitation, v2Invitation, mediatorId, reusable, tags) ==
    [id |-> id, role |-> role, state |-> state,
     outOfBandInvitation |-> invitation, v2OutOfBandInvitation |-> v2Invitation,
     mediatorId |-> mediatorId, reusable |-> reusable,
     recipientKeyFingerprints |-> tags,
     recipientRouting |-> Undefined, implicit |-> FALSE]

\* OutOfBandRecord.getTags().invitationId
InvitationId(record) ==
    IF IsDefined(record.outOfBandInvitation) THEN record.outOfBandInvitation[1].id
    ELSE record.v2OutOfBandInvitation[1].id

\* uuid()
Uuid(n) == "uuid-" \o ToString(n)

(***************************************************************************)
(* The call in flight                                                      *)
(***************************************************************************)
\* no wait for a HandshakeReused event is set up
NoReuseWait == [status |-> "none", reuseThreadId |-> "", outOfBandRecord |-> 0,
                connectionRecord |-> 0, timeoutMs |-> 0, sent |-> FALSE, events |-> {}]

NoConfig == [op |-> "none"]

IdleCall == [op |-> "idle", pc |-> "", error |-> "", outOfBandRecord |-> 0,
             connectionRecord |-> 0]

\* locals of a call; pre is the store as the call found it, known the
\* connections as findExistingConnection found them
IdleLocal == [pre |-> {}, known |-> <<>>, outOfBandRecord |-> Undefined,
              existingConnection |-> Undefined, connectionRecord |-> Undefined,
              routing |-> Undefined, accept |-> Undefined, messages |-> Undefined]

Idle == call.op = "idle"

\* the next record id and invitation id: uuid() never repeats
nextId == made.Sender + made.Receiver + 1

Throw(op, error) ==
    [op |-> op, pc |-> "failed", error |-> error, outOfBandRecord |-> 0,
     connectionRecord |-> 0]

At(op, pc) ==
    [op |-> op, pc |-> pc, error |-> "", outOfBandRecord |-> 0, connectionRecord |-> 0]

\* an entry of effects
Effect(kind, record, connection) ==
    [kind |-> kind, record |-> record, connection |-> connection,
     previousState |-> "", message |-> Undefined, protocol |-> Undefined,
     routing |-> Undefined, timeoutMs |-> 0, recipientKeys |-> <<>>,
     mediatorId |-> Undefined]

(***************************************************************************)
(* createInvitation                                                        *)
(***************************************************************************)
CreateConfig(version, handshake, handshakeProtocols, messages, multiUseInvitation, routing) ==
    [op |-> "createInvitation", version |-> version, handshake |-> handshake,
     handshakeProtocols |-> handshakeProtocols, messages |-> messages,
     multiUseInvitation |-> multiUseInvitation, routing |-> routing]

\* CreateV1Error with an empty messages list taken for messages given
CreateV1ErrorEmptyMessages(cfg) ==
    LET handshake == OrElse(cfg.handshake, TRUE)
        multiUseInvitation == OrElse(cfg.multiUseInvitation, FALSE)
        customHandshakeProtocols == cfg.handshakeProtocols
        messages == cfg.messages
    IN IF ~handshake /\ ~IsDefined(messages) THEN "HandshakeOrRequestsRequired"
       ELSE IF ~handshake /\ IsDefined(customHandshakeProtocols)
       THEN "HandshakeFalseWithHandshakeProtocols"
       ELSE IF IsDefined(messages) /\ multiUseInvitation THEN "MultiUseWithMessages"
       ELSE IF handshake /\ IsDefined(customHandshakeProtocols)
       THEN assertHandshakeProtocols(customHandshakeProtocols[1])
       ELSE IF handshake THEN getSupportedHandshakeProtocols.error
       ELSE ""

\* lines 191-228: the error thrown before anything is built, "" when none
CreateV1Error(cfg) ==
    LET handshake == OrElse(cfg.handshake, TRUE)
        multiUseInvitation == OrElse(cfg.multiUseInvitation, FALSE)
        customHandshakeProtocols == cfg.handshakeProtocols
        messages == IF IsDefined(cfg.messages) /\ Len(cfg.messages[1]) > 0
                    THEN cfg.messages ELSE Undefined
    IN IF ~handshake /\ ~IsDefined(messages) THEN "HandshakeOrRequestsRequired"
       ELSE IF ~handshake /\ IsDefined(customHandshakeProtocols)
       THEN "HandshakeFalseWithHandshakeProtocols"
       ELSE IF IsDefined(messages) /\ multiUseInvitation THEN "MultiUseWithMessages"
       ELSE IF handshake /\ IsDefined(customHandshakeProtocols)
       THEN assertHandshakeProtocols(customHandshakeProtocols[1])
       ELSE IF handshake THEN getSupportedHandshakeProtocols.error
       ELSE ""

\* CreateHandshakeProtocols with the supported protocols in the order of the registry
CreateHandshakeProtocolsRegistryOrder(cfg) ==
    IF ~OrElse(cfg.handshake, TRUE) THEN Undefined
    ELSE IF IsDefined(cfg.handshakeProtocols) THEN cfg.handshakeProtocols
    ELSE Some(filterSupportedProtocolsByMessageFamilies(handshakeMessageFamilies))

\* lines 218-228: the handshake_protocols of the invitation
CreateHandshakeProtocols(cfg) ==
    IF ~OrElse(cfg.handshake, TRUE) THEN Undefined
    ELSE IF IsDefined(cfg.handshakeProtocols) THEN cfg.handshakeProtocols
    ELSE Some(getSupportedHandshakeProtocols.value)

\* lines 232-239: one inline service per endpoint of the routing
CreateServices(routing) ==
    [index \in 1..Len(routing.endpoints) |->
        OutOfBandDidCommService(
            "#inline-" \o ToString(index - 1),
            routing.endpoints[index],
            <<DidKeyDid(routing.recipientKey)>>,
            [i \in 1..Len(routing.routingKeys) |-> DidKeyDid(routing.routingKeys[i])])]

\* lines 253-261: the messages attached, their ~service removed
RECURSIVE AddRequests(_, _)
AddRequests(invitation, messages) ==
    IF messages = <<>> THEN invitation
    ELSE AddRequests(addRequest(invitation, [messages[1] EXCEPT !.service = FALSE]),
                     Tail(messages))

\* lines 241-276: the v1 record
CreateV1Record(cfg, routing) ==
    LET services == CreateServices(routing)
        messages == IF IsDefined(cfg.messages) /\ Len(cfg.messages[1]) > 0
                    THEN cfg.messages ELSE Undefined
        outOfBandInvitation ==
            OutOfBandInvitation(Uuid(nextId), services, CreateHandshakeProtocols(cfg),
                                Undefined)
        withRequests ==
            IF IsDefined(messages) THEN AddRequests(outOfBandInvitation, messages[1])
            ELSE outOfBandInvitation
        recipientKeyFingerprints ==
            LET didKeys == Flatten([i \in 1..Len(services) |-> services[i].recipientKeys])
            IN [i \in 1..Len(didKeys) |-> Fingerprint(DidKeyFromDid(didKeys[i]))]
    IN OutOfBandRecord(nextId, "Sender", "AwaitResponse", Some(withRequests), Undefined,
                       routing.mediatorId, OrElse(cfg.multiUseInvitation, FALSE),
                       recipientKeyFingerprints)

\* lines 173-189: the v2 record; v2OutOfBandService.createInvitation builds the invitation
CreateV2Record(cfg) ==
    LET attachments == [i \in 1..Len(OrElse(cfg.messages, <<>>)) |->
                           [data |-> OrElse(cfg.messages, <<>>)[i]]]
    IN OutOfBandRecord(nextId, "Sender", "AwaitResponse", Undefined,
                       Some(V2OutOfBandInvitation(Uuid(nextId), attachments)),
                       Undefined, FALSE, <<>>)

\* lines 170-277: validation and construction of the record, up to the save
CreateInvitation(cfg, serviceRouting) ==
    /\ Idle
    /\ config' = cfg
    /\ effects' = <<>>
    /\ IF cfg.version = Some("v2")
       THEN /\ made.Sender < MaxCreated
            /\ call' = At("createInvitation", "save")
            /\ local' = [IdleLocal EXCEPT !.pre = store,
                                           !.outOfBandRecord = Some(CreateV2Record(cfg))]
            /\ made' = [made EXCEPT !.Sender = @ + 1]
       ELSE IF CreateV1Error(cfg) # ""
       THEN /\ call' = Throw("createInvitation", CreateV1Error(cfg))
            /\ local' = [IdleLocal EXCEPT !.pre = store]
            /\ made' = made
       ELSE /\ made.Sender < MaxCreated
            /\ call' = At("createInvitation", "save")
            /\ local' = [IdleLocal EXCEPT
                            !.pre = store,
                            !.outOfBandRecord =
                                Some(CreateV1Record(cfg, OrElse(cfg.routing, serviceRouting)))]
            /\ made' = [made EXCEPT !.Sender = @ + 1]
    /\ UNCHANGED <<parked, registry, store, connections, reuseWait, readyWaits>>

\* CreateSave with the save left out
CreateSaveSkipped ==
    /\ call.op = "createInvitation" /\ call.pc = "save"
    /\ call' = [call EXCEPT !.pc = "emit"]
    /\ UNCHANGED <<parked, registry, store, connections, made, config, local, effects,
                   reuseWait, readyWaits>>

\* line 279: outOfBandService.save
CreateSave ==
    /\ call.op = "createInvitation" /\ call.pc = "save"
    /\ store' = store \cup {local.outOfBandRecord[1]}
    /\ effects' = Append(effects, Effect("save", local.outOfBandRecord[1].id, 0))
    /\ call' = [call EXCEPT !.pc = "emit"]
    /\ UNCHANGED <<parked, registry, connections, made, config, local, reuseWait, readyWaits>>

\* lines 280-282: emitStateChangedEvent(record, null) and the return
CreateEmit ==
    /\ call.op = "createInvitation" /\ call.pc = "emit"
    /\ effects' = Append(effects,
                         [Effect("stateChanged", local.outOfBandRecord[1].id, 0)
                             EXCEPT !.previousState = "null"])
    /\ call' = [call EXCEPT !.pc = "returned",
                            !.outOfBandRecord = local.outOfBandRecord[1].id]
    /\ UNCHANGED <<parked, registry, store, connections, made, config, local, reuseWait,
                   readyWaits>>

\* the caller takes the outcome; the next call may start
Return ==
    /\ call.pc \in {"returned", "failed"}
    /\ call' = IdleCall
    /\ config' = NoConfig
    /\ local' = IdleLocal
    /\ effects' = <<>>
    /\ reuseWait' = NoReuseWait
    /\ UNCHANGED <<parked, registry, store, connections, made, readyWaits>>

(***************************************************************************)
(* receiveInvitation, receiveImplicitInvitation                            *)
(***************************************************************************)
ReceiveConfig(autoAcceptInvitation, reuseConnection, routing, acceptInvitationTimeoutMs) ==
    [op |-> "receiveInvitation", autoAcceptInvitation |-> autoAcceptInvitation,
     reuseConnection |-> reuseConnection, routing |-> routing,
     acceptInvitationTimeoutMs |-> acceptInvitationTimeoutMs,
     isImplicit |-> FALSE, invitation |-> NoInvitation]

\* findAllByQuery with the role left out of the query
findAllByQueryAnyRole(invitationId, role) ==
    {r \in store : InvitationId(r) = invitationId}

\* outOfBandService.findAllByQuery({ invitationId, role })
findAllByQuery(invitationId, role) ==
    {r \in store : InvitationId(r) = invitationId /\ r.role = role}

\* ReceiveV1Error with the duplicate query left out
ReceiveV1ErrorNoQuery(outOfBandInvitation, isImplicit) ==
    LET handshakeProtocols == outOfBandInvitation.handshakeProtocols
        messages == getRequests(outOfBandInvitation)
    IN IF (~IsDefined(handshakeProtocols) \/ Len(handshakeProtocols[1]) = 0)
          /\ (~IsDefined(messages) \/ Len(messages[1]) = 0)
       THEN "HandshakeOrRequestsRequired"
       ELSE ""

\* lines 439-468: the error thrown for a v1 invitation, "" when none
ReceiveV1Error(outOfBandInvitation, isImplicit) ==
    LET handshakeProtocols == outOfBandInvitation.handshakeProtocols
        messages == getRequests(outOfBandInvitation)
    IN IF (~IsDefined(handshakeProtocols) \/ Len(handshakeProtocols[1]) = 0)
          /\ (~IsDefined(messages) \/ Len(messages[1]) = 0)
       THEN "HandshakeOrRequestsRequired"
       ELSE IF ~isImplicit /\ findAllByQuery(outOfBandInvitation.id, "Receiver") # {}
       THEN "InvitationAlreadyReceived"
       ELSE ""

\* lines 470-489: the fingerprints of the recipient keys of all services
ReceiveFingerprints(outOfBandInvitation) ==
    LET services == getServices(outOfBandInvitation)
    IN Flatten([i \in 1..Len(services) |->
          IF services[i].kind = "did"
          THEN [k \in 1..Len(ResolvedRecipientKeys(services[i].did)) |->
                   Fingerprint(ResolvedRecipientKeys(services[i].did)[k])]
          ELSE [k \in 1..Len(services[i].recipientKeys) |->
                   Fingerprint(DidKeyFromDid(services[i].recipientKeys[k]))]])

\* lines 504-509: the routing as it is kept in the metadata of the record
RecipientRouting(routing) ==
    [recipientKeyFingerprint |-> Fingerprint(routing.recipientKey),
     routingKeyFingerprints |->
        [i \in 1..Len(routing.routingKeys) |-> Fingerprint(routing.routingKeys[i])],
     endpoints |-> routing.endpoints,
     mediatorId |-> routing.mediatorId]

\* lines 491-510: the v1 record
ReceiveV1Record(outOfBandInvitation, cfg) ==
    LET handshakeProtocols == outOfBandInvitation.handshakeProtocols
        isConnectionless == ~IsDefined(handshakeProtocols) \/ Len(handshakeProtocols[1]) = 0
        autoAcceptInvitation == OrElse(cfg.autoAcceptInvitation, TRUE)
        record == OutOfBandRecord(nextId, "Receiver", "Initial", Some(outOfBandInvitation),
                      Undefined,
                      IF IsDefined(cfg.routing) THEN cfg.routing[1].mediatorId ELSE Undefined,
                      FALSE, ReceiveFingerprints(outOfBandInvitation))
    IN [record EXCEPT
          !.recipientRouting =
              IF IsDefined(cfg.routing) /\ (isConnectionless \/ ~autoAcceptInvitation)
              THEN Some(RecipientRouting(cfg.routing[1])) ELSE Undefined,
          !.implicit = cfg.isImplicit]

\* lines 431-437: the v2 record
ReceiveV2Record(invitation) ==
    OutOfBandRecord(nextId, "Receiver", "Initial", Undefined, Some(invitation),
                    Undefined, FALSE, <<>>)

\* _receiveInvitation with the record stored before the invitation is validated
_receiveInvitationRecordFirst(invitation, cfg) ==
    LET outOfBandInvitation ==
            IF invitation.type = "OutOfBandInvitation" THEN invitation
            ELSE convertToNewInvitation(invitation)
    IN
    /\ Idle
    /\ config' = [cfg EXCEPT !.invitation = Some(invitation)]
    /\ effects' = <<>>
    /\ IF invitation.type = "V2OutOfBandInvitation"
       THEN /\ made.Receiver < MaxReceived
            /\ call' = At("receiveInvitation", "save")
            /\ local' = [IdleLocal EXCEPT !.pre = store,
                                           !.outOfBandRecord = Some(ReceiveV2Record(invitation))]
            /\ made' = [made EXCEPT !.Receiver = @ + 1]
            /\ store' = store
       ELSE IF ReceiveV1Error(outOfBandInvitation, cfg.isImplicit) # ""
       THEN /\ call' = Throw("receiveInvitation",
                             ReceiveV1Error(outOfBandInvitation, cfg.isImplicit))
            /\ local' = [IdleLocal EXCEPT !.pre = store]
            /\ made' = made
            /\ store' = store \cup {ReceiveV1Record(outOfBandInvitation, cfg)}
       ELSE /\ made.Receiver < MaxReceived
            /\ call' = At("receiveInvitation", "save")
            /\ local' = [IdleLocal EXCEPT
                            !.pre = store,
                            !.outOfBandRecord = Some(ReceiveV1Record(outOfBandInvitation, cfg))]
            /\ made' = [made EXCEPT !.Receiver = @ + 1]
            /\ store' = store
    /\ UNCHANGED <<parked, registry, connections, reuseWait, readyWaits>>

\* lines 414-515: validation, the duplicate query and the construction of the record
_receiveInvitation(invitation, cfg) ==
    LET outOfBandInvitation ==
            IF invitation.type = "OutOfBandInvitation" THEN invitation
            ELSE convertToNewInvitation(invitation)
    IN
    /\ Idle
    /\ config' = [cfg EXCEPT !.invitation = Some(invitation)]
    /\ effects' = <<>>
    /\ IF invitation.type = "V2OutOfBandInvitation"
       THEN /\ made.Receiver < MaxReceived
            /\ call' = At("receiveInvitation", "save")
            /\ local' = [IdleLocal EXCEPT !.pre = store,
                                           !.outOfBandRecord = Some(ReceiveV2Record(invitation))]
            /\ made' = [made EXCEPT !.Receiver = @ + 1]
       ELSE IF ReceiveV1Error(outOfBandInvitation, cfg.isImplicit) # ""
       THEN /\ call' = Throw("receiveInvitation",
                             ReceiveV1Error(outOfBandInvitation, cfg.isImplicit))
            /\ local' = [IdleLocal EXCEPT !.pre = store]
            /\ made' = made
       ELSE /\ made.Receiver < MaxReceived
            /\ call' = At("receiveInvitation", "save")
            /\ local' = [IdleLocal EXCEPT
                            !.pre = store,
                            !.outOfBandRecord = Some(ReceiveV1Record(outOfBandInvitation, cfg))]
            /\ made' = [made EXCEPT !.Receiver = @ + 1]
    /\ UNCHANGED <<parked, registry, store, connections, reuseWait, readyWaits>>

\* lines 376-381
ReceiveInvitation(invitation, cfg) == _receiveInvitation(invitation, cfg)

\* lines 400-409: the invitation made up from the did; reuseConnection is not
\* among the options of an implicit invitation
ReceiveImplicitInvitation(did, handshakeProtocols, cfg) ==
    _receiveInvitation(
        OutOfBandInvitation(did, <<DidService(did)>>,
                            Some(OrElse(handshakeProtocols, <<DidExchange>>)), Undefined),
        [cfg EXCEPT !.isImplicit = TRUE, !.reuseConnection = Undefined])

\* ReceiveSave with the duplicate query made again under the save
ReceiveSaveExclusive ==
    /\ call.op = "receiveInvitation" /\ call.pc = "save"
    /\ IF /\ IsDefined(local.outOfBandRecord[1].outOfBandInvitation)
          /\ ~config.isImplicit
          /\ findAllByQuery(InvitationId(local.outOfBandRecord[1]), "Receiver") # {}
       THEN /\ call' = Throw("receiveInvitation", "InvitationAlreadyReceived")
            /\ UNCHANGED <<store, effects>>
       ELSE /\ store' = store \cup {local.outOfBandRecord[1]}
            /\ effects' = Append(effects, Effect("save", local.outOfBandRecord[1].id, 0))
            /\ call' = [call EXCEPT !.pc = "emit"]
    /\ UNCHANGED <<parked, registry, connections, made, config, local, reuseWait, readyWaits>>

\* line 517: outOfBandService.save
ReceiveSave ==
    /\ call.op = "receiveInvitation" /\ call.pc = "save"
    /\ store' = store \cup {local.outOfBandRecord[1]}
    /\ effects' = Append(effects, Effect("save", local.outOfBandRecord[1].id, 0))
    /\ call' = [call EXCEPT !.pc = "emit"]
    /\ UNCHANGED <<parked, registry, connections, made, config, local, reuseWait, readyWaits>>

\* the arguments of acceptInvitation
AcceptConfig(outOfBandId, reuseConnection, routing, timeoutMs) ==
    [op |-> "acceptInvitation", outOfBandId |-> outOfBandId,
     reuseConnection |-> reuseConnection, routing |-> routing, timeoutMs |-> timeoutMs]

\* ReceiveEmit with autoAcceptInvitation false when it is not given
ReceiveEmitNoDefault ==
    /\ call.op = "receiveInvitation" /\ call.pc = "emit"
    /\ effects' = Append(effects,
                         [Effect("stateChanged", local.outOfBandRecord[1].id, 0)
                             EXCEPT !.previousState = "null"])
    /\ IF OrElse(config.autoAcceptInvitation, FALSE)
       THEN /\ call' = [call EXCEPT !.pc = "accept"]
            /\ local' = [local EXCEPT !.accept =
                  Some(AcceptConfig(local.outOfBandRecord[1].id,
                                    Some(OrElse(config.reuseConnection, FALSE)),
                                    config.routing, config.acceptInvitationTimeoutMs))]
       ELSE /\ call' = [call EXCEPT !.pc = "returned",
                                    !.outOfBandRecord = local.outOfBandRecord[1].id]
            /\ local' = local
    /\ UNCHANGED <<parked, registry, store, connections, made, config, reuseWait, readyWaits>>

\* lines 518-532: the event, then acceptInvitation or the return of the bare record
ReceiveEmit ==
    /\ call.op = "receiveInvitation" /\ call.pc = "emit"
    /\ effects' = Append(effects,
                         [Effect("stateChanged", local.outOfBandRecord[1].id, 0)
                             EXCEPT !.previousState = "null"])
    /\ IF OrElse(config.autoAcceptInvitation, TRUE)
       THEN /\ call' = [call EXCEPT !.pc = "accept"]
            /\ local' = [local EXCEPT !.accept =
                  Some(AcceptConfig(local.outOfBandRecord[1].id,
                                    Some(OrElse(config.reuseConnection, FALSE)),
                                    config.routing, config.acceptInvitationTimeoutMs))]
       ELSE /\ call' = [call EXCEPT !.pc = "returned",
                                    !.outOfBandRecord = local.outOfBandRecord[1].id]
            /\ local' = local
    /\ UNCHANGED <<parked, registry, store, connections, made, config, reuseWait, readyWaits>>

(***************************************************************************)
(* Connections (the connections module) and message delivery               *)
(***************************************************************************)
ConnectionRecord(id, outOfBandId, invitationDid, isReady) ==
    [id |-> id, outOfBandId |-> outOfBandId, invitationDid |-> invitationDid,
     isReady |-> isReady]

\* connectionsApi.findByInvitationDid, in discovery order
findByInvitationDid(invitationDid) ==
    Filter(connections, LAMBDA c : c.invitationDid = invitationDid)

\* connectionsApi.findAllByOutOfBandId
findAllByOutOfBandId(outOfBandId) ==
    Filter(connections, LAMBDA c : c.outOfBandId = outOfBandId)

\* findExistingConnection with the last of several connections taken
findExistingConnectionLast(outOfBandInvitation) ==
    LET invitationDids == InvitationDids(outOfBandInvitation)
    IN IF invitationDids = <<>> THEN Undefined
       ELSE LET found == findByInvitationDid(invitationDids[1])
            IN IF Len(found) = 1 THEN Some(found[1])
               ELSE IF Len(found) > 1 THEN Some(found[Len(found)])
               ELSE Undefined

\* findExistingConnection with every invitation did looked at
findExistingConnectionAllDids(outOfBandInvitation) ==
    LET invitationDids == InvitationDids(outOfBandInvitation)
        found == Flatten([i \in 1..Len(invitationDids) |->
                             findByInvitationDid(invitationDids[i])])
    IN IF Len(found) > 0 THEN Some(found[1]) ELSE Undefined

\* lines 798-817: only the first invitation did is looked at
findExistingConnection(outOfBandInvitation) ==
    LET invitationDids == InvitationDids(outOfBandInvitation)
    IN IF invitationDids = <<>> THEN Undefined
       ELSE LET found == findByInvitationDid(invitationDids[1])
            IN IF Len(found) = 1 THEN Some(found[1])
               ELSE IF Len(found) > 1 THEN Some(found[1])
               ELSE Undefined

\* lines 820-828 and 847-855: the first message with a supported type
FirstSupportedMessage(messages) ==
    Find(messages, LAMBDA m : \E type \in supportedMessageTypes :
                                  supportsIncomingMessageType(m, type))

DefaultAcceptTimeoutMs == 20000

ReuseTimeoutMs == 15000

(***************************************************************************)
(* acceptInvitation                                                        *)
(***************************************************************************)
getById(outOfBandId) == {r \in store : r.id = outOfBandId}

\* lines 582-593: the routing of the caller, else the one kept by receiveInvitation
AcceptRouting(cfg, record) ==
    IF IsDefined(cfg.routing) THEN cfg.routing
    ELSE IF IsDefined(record.recipientRouting)
    THEN LET r == record.recipientRouting[1]
         IN Some(Routing(KeyFromFingerprint(r.recipientKeyFingerprint),
                         [i \in 1..Len(r.routingKeyFingerprints) |->
                             KeyFromFingerprint(r.routingKeyFingerprints[i])],
                         r.endpoints, r.mediatorId))
    ELSE Undefined

\* AcceptBranch with the reuse tried whether messages are attached or not
AcceptBranchReuseFirst(outOfBandInvitation, existingConnection, reuseConnection) ==
    LET handshakeProtocols == outOfBandInvitation.handshakeProtocols
        messages == getRequests(outOfBandInvitation)
    IN IF IsDefined(handshakeProtocols)
       THEN IF IsDefined(existingConnection) /\ OrElse(reuseConnection, FALSE)
            THEN "reuse"
            ELSE "handshake"
       ELSE IF IsDefined(messages) THEN "connectionless"
       ELSE "returned"

\* lines 601-676: where acceptInvitation goes after updateState
AcceptBranch(outOfBandInvitation, existingConnection, reuseConnection) ==
    LET handshakeProtocols == outOfBandInvitation.handshakeProtocols
        messages == getRequests(outOfBandInvitation)
    IN IF IsDefined(handshakeProtocols)
       THEN IF IsDefined(existingConnection) /\ OrElse(reuseConnection, FALSE)
            THEN IF ~IsDefined(messages) THEN "reuse" ELSE "messages"
            ELSE "handshake"
       ELSE IF IsDefined(messages) THEN "connectionless"
       ELSE "returned"

\* acceptInvitation called by the user of the api
AcceptInvitation(cfg) ==
    /\ Idle
    /\ config' = cfg
    /\ effects' = <<>>
    /\ call' = At("acceptInvitation", "accept")
    /\ local' = [IdleLocal EXCEPT !.pre = store, !.accept = Some(cfg)]
    /\ UNCHANGED <<parked, registry, store, connections, made, reuseWait, readyWaits>>

\* lines 566-599, v1: routing, findExistingConnection, updateState, and the branch taken
AcceptV1(record) ==
    LET cfg == local.accept[1]
        outOfBandInvitation == record.outOfBandInvitation[1]
        existingConnection == findExistingConnection(outOfBandInvitation)
        updated == [record EXCEPT !.state = "PrepareResponse"]
        branch == AcceptBranch(outOfBandInvitation, existingConnection, cfg.reuseConnection)
    IN /\ store' = (store \ {record}) \cup {updated}
       /\ effects' = effects \o
             <<Effect("findExistingConnection", record.id,
                      IF IsDefined(existingConnection) THEN existingConnection[1].id ELSE 0),
               [Effect("updateState", record.id, 0) EXCEPT !.previousState = record.state]>>
       /\ local' = [local EXCEPT
             !.known = connections,
             !.outOfBandRecord = Some(updated),
             !.routing = AcceptRouting(cfg, record),
             !.existingConnection = existingConnection,
             !.connectionRecord = IF branch = "messages" THEN existingConnection ELSE Undefined,
             !.messages = getRequests(outOfBandInvitation)]
       /\ call' = [call EXCEPT !.pc = branch,
                               !.outOfBandRecord = IF branch = "returned" THEN record.id ELSE 0]
       /\ UNCHANGED connections

\* AcceptV2 with the lookup of an existing connection made before the delegation
AcceptV2WithLookup(record, produced) ==
    LET connectionRecord == ConnectionRecord(Len(connections) + 1, record.id, "", FALSE)
    IN /\ effects' = effects \o
             <<Effect("findExistingConnection", record.id, 0),
               Effect("v2AcceptInvitation", record.id,
                      IF produced THEN connectionRecord.id ELSE 0)>>
       /\ connections' = IF produced THEN Append(connections, connectionRecord)
                         ELSE connections
       /\ local' = [local EXCEPT !.outOfBandRecord = Some(record)]
       /\ call' = [call EXCEPT !.pc = "returned", !.outOfBandRecord = record.id,
                               !.connectionRecord = IF produced THEN connectionRecord.id ELSE 0]
       /\ UNCHANGED store

\* lines 568-574: v2OutOfBandService.acceptInvitation and what it hands back
AcceptV2(record, produced) ==
    LET connectionRecord == ConnectionRecord(Len(connections) + 1, record.id, "", FALSE)
    IN /\ effects' = Append(effects, Effect("v2AcceptInvitation", record.id,
                                            IF produced THEN connectionRecord.id ELSE 0))
       /\ connections' = IF produced THEN Append(connections, connectionRecord)
                         ELSE connections
       /\ local' = [local EXCEPT !.outOfBandRecord = Some(record)]
       /\ call' = [call EXCEPT !.pc = "returned", !.outOfBandRecord = record.id,
                               !.connectionRecord = IF produced THEN connectionRecord.id ELSE 0]
       /\ UNCHANGED store

\* lines 566-599
AcceptBegin ==
    /\ call.pc = "accept"
    /\ LET found == getById(local.accept[1].outOfBandId)
       IN IF found = {}
          THEN /\ call' = Throw(call.op, "RecordNotFound")
               /\ UNCHANGED <<store, connections, local, effects>>
          ELSE LET record == CHOOSE r \in found : TRUE
               IN IF IsDefined(record.v2OutOfBandInvitation)
                  THEN \E produced \in {b \in BOOLEAN : b => Len(connections) < MaxConnections} :
                          AcceptV2(record, produced)
                  ELSE AcceptV1(record)
    /\ UNCHANGED <<parked, registry, made, config, reuseWait, readyWaits>>

\* AcceptReuseStart with sendMessage called before the wait is set up
AcceptReuseStartSendFirst ==
    /\ call.pc = "reuse"
    /\ effects' = Append(effects, Effect("sendHandshakeReuse", local.outOfBandRecord[1].id,
                                         local.existingConnection[1].id))
    /\ call' = [call EXCEPT !.pc = "reuseSending"]
    /\ UNCHANGED <<parked, registry, store, connections, made, config, local, reuseWait,
                   readyWaits>>

\* lines 868-898: the reuse message is built, the wait for the accepted event and
\* its timer are set up, and sendMessage is called
AcceptReuseStart ==
    /\ call.pc = "reuse"
    /\ reuseWait' = [status |-> "pending",
                     reuseThreadId |-> "reuse-" \o ToString(local.outOfBandRecord[1].id),
                     outOfBandRecord |-> local.outOfBandRecord[1].id,
                     connectionRecord |-> local.existingConnection[1].id,
                     timeoutMs |-> ReuseTimeoutMs, sent |-> FALSE, events |-> {}]
    /\ effects' = Append(effects, Effect("sendHandshakeReuse", local.outOfBandRecord[1].id,
                                         local.existingConnection[1].id))
    /\ call' = [call EXCEPT !.pc = "reuseSending"]
    /\ UNCHANGED <<parked, registry, store, connections, made, config, local, readyWaits>>

\* line 898: sendMessage returns
AcceptReuseSent ==
    /\ call.pc = "reuseSending"
    /\ reuseWait' = [reuseWait EXCEPT !.sent = TRUE]
    /\ call' = [call EXCEPT !.pc = "reuseAwait"]
    /\ UNCHANGED <<parked, registry, store, connections, made, config, local, effects,
                   readyWaits>>

\* HandshakeReusedEvent with the thread id alone compared
HandshakeReusedEventThreadOnly(reuseThreadId, outOfBandRecordId, connectionRecordId) ==
    /\ reuseWait.status = "pending"
    /\ reuseWait' =
          [reuseWait EXCEPT
              !.status = IF reuseThreadId = reuseWait.reuseThreadId
                         THEN "accepted" ELSE "pending",
              !.events = @ \cup {<<reuseThreadId, outOfBandRecordId, connectionRecordId>>}]
    /\ UNCHANGED <<parked, registry, store, connections, made, call, config, local, effects,
                   readyWaits>>

\* lines 880-887: a HandshakeReused event is published; the pending wait takes
\* it when thread, record and connection are its own. events keeps the
\* payloads the wait has seen
HandshakeReusedEvent(reuseThreadId, outOfBandRecordId, connectionRecordId) ==
    /\ reuseWait.status = "pending"
    /\ reuseWait' =
          [reuseWait EXCEPT
              !.status = IF /\ reuseThreadId = reuseWait.reuseThreadId
                            /\ outOfBandRecordId = reuseWait.outOfBandRecord
                            /\ connectionRecordId = reuseWait.connectionRecord
                         THEN "accepted" ELSE "pending",
              !.events = @ \cup {<<reuseThreadId, outOfBandRecordId, connectionRecordId>>}]
    /\ UNCHANGED <<parked, registry, store, connections, made, call, config, local, effects,
                   readyWaits>>

\* ReuseTimeout with the timeout thrown to acceptInvitation
ReuseTimeoutThrows ==
    /\ reuseWait.status = "pending"
    /\ reuseWait' = [reuseWait EXCEPT !.status = "timedOut"]
    /\ call' = Throw(call.op, "ReuseTimedOut")
    /\ UNCHANGED <<parked, registry, store, connections, made, config, local, effects,
                   readyWaits>>

\* lines 888-890: the 15 s pass, or the stream ends, before a matching event
ReuseTimeout ==
    /\ reuseWait.status = "pending"
    /\ reuseWait' = [reuseWait EXCEPT !.status = "timedOut"]
    /\ UNCHANGED <<parked, registry, store, connections, made, call, config, local, effects,
                   readyWaits>>

\* lines 900 and 612-627: the outcome of the reuse; without messages a reused
\* connection is returned at once (lines 646, 667)
AcceptReuseDone ==
    /\ call.pc = "reuseAwait"
    /\ reuseWait.status \in {"accepted", "timedOut"}
    /\ IF reuseWait.status = "accepted"
       THEN /\ local' = [local EXCEPT !.connectionRecord = local.existingConnection]
            /\ call' = [call EXCEPT !.pc = "messages"]
       ELSE /\ local' = local
            /\ call' = [call EXCEPT !.pc = "handshake"]
    /\ UNCHANGED <<parked, registry, store, connections, made, config, effects, reuseWait,
                   readyWaits>>

\* AcceptHandshake with the record taken out of the store when no protocol is found
AcceptHandshakeRollsBack ==
    /\ call.pc = "handshake"
    /\ LET record == local.outOfBandRecord[1]
           outOfBandInvitation == record.outOfBandInvitation[1]
           chosen == getFirstSupportedProtocol(outOfBandInvitation.handshakeProtocols[1])
           invitationDids == InvitationDids(outOfBandInvitation)
           connectionRecord ==
               ConnectionRecord(Len(connections) + 1, record.id,
                                IF invitationDids = <<>> THEN "" ELSE invitationDids[1], FALSE)
       IN IF chosen.error # ""
          THEN /\ call' = Throw(call.op, chosen.error)
               /\ store' = store \ {record}
               /\ UNCHANGED <<connections, local, effects>>
          ELSE /\ Len(connections) < MaxConnections
               /\ connections' = Append(connections, connectionRecord)
               /\ effects' = Append(effects,
                     [Effect("acceptOutOfBandInvitation", record.id, connectionRecord.id)
                         EXCEPT !.protocol = chosen.value, !.routing = local.routing])
               /\ local' = [local EXCEPT !.connectionRecord = Some(connectionRecord)]
               /\ call' = [call EXCEPT !.pc = "messages"]
               /\ store' = store
    /\ UNCHANGED <<parked, registry, made, config, reuseWait, readyWaits>>

\* lines 631-644: the protocol is chosen and connectionsApi.acceptOutOfBandInvitation
\* makes the connection, which is not ready yet
AcceptHandshake ==
    /\ call.pc = "handshake"
    /\ LET record == local.outOfBandRecord[1]
           outOfBandInvitation == record.outOfBandInvitation[1]
           chosen == getFirstSupportedProtocol(outOfBandInvitation.handshakeProtocols[1])
           invitationDids == InvitationDids(outOfBandInvitation)
           connectionRecord ==
               ConnectionRecord(Len(connections) + 1, record.id,
                                IF invitationDids = <<>> THEN "" ELSE invitationDids[1], FALSE)
       IN IF chosen.error # ""
          THEN /\ call' = Throw(call.op, chosen.error)
               /\ UNCHANGED <<connections, local, effects>>
          ELSE /\ Len(connections) < MaxConnections
               /\ connections' = Append(connections, connectionRecord)
               /\ effects' = Append(effects,
                     [Effect("acceptOutOfBandInvitation", record.id, connectionRecord.id)
                         EXCEPT !.protocol = chosen.value, !.routing = local.routing])
               /\ local' = [local EXCEPT !.connectionRecord = Some(connectionRecord)]
               /\ call' = [call EXCEPT !.pc = "messages"]
    /\ UNCHANGED <<parked, registry, store, made, config, reuseWait, readyWaits>>

\* a returnWhenIsConnected wait and what became of it
ReadyWait(connectionId, messages, timeoutMs) ==
    [connection |-> connectionId, messages |-> messages, timeoutMs |-> timeoutMs,
     status |-> "pending", delivered |-> Undefined]

\* lines 646-667: the messages go to the connection now if it is ready, else a
\* wait is set up; the record and the connection are returned
AcceptMessages ==
    /\ call.pc = "messages"
    /\ LET record == local.outOfBandRecord[1]
           connectionRecord == local.connectionRecord[1]
           messages == local.messages
           message == FirstSupportedMessage(messages[1])
           returned == [call EXCEPT !.pc = "returned", !.outOfBandRecord = record.id,
                                    !.connectionRecord = connectionRecord.id]
       IN IF ~IsDefined(messages)
          THEN /\ call' = returned
               /\ UNCHANGED <<effects, readyWaits>>
          ELSE IF connectionRecord.isReady
          THEN IF ~IsDefined(message)
               THEN /\ call' = Throw(call.op, "NoSupportedMessage")
                    /\ UNCHANGED <<effects, readyWaits>>
               ELSE /\ effects' = Append(effects,
                          [Effect("AgentMessageReceived", 0, connectionRecord.id)
                              EXCEPT !.message = message])
                    /\ call' = returned
                    /\ UNCHANGED readyWaits
          ELSE /\ readyWaits' = Append(readyWaits,
                     ReadyWait(connectionRecord.id, messages[1],
                               OrElse(local.accept[1].timeoutMs, DefaultAcceptTimeoutMs)))
               /\ effects' = Append(effects,
                     [Effect("returnWhenIsConnected", 0, connectionRecord.id)
                         EXCEPT !.timeoutMs =
                             OrElse(local.accept[1].timeoutMs, DefaultAcceptTimeoutMs)])
               /\ call' = returned
    /\ UNCHANGED <<parked, registry, store, connections, made, config, local, reuseWait>>

\* lines 668-679 with 819-866: no handshake protocols, the first supported
\* message goes to the existing connection or to the services of the invitation
AcceptConnectionless ==
    /\ call.pc = "connectionless"
    /\ LET record == local.outOfBandRecord[1]
           services == getServices(record.outOfBandInvitation[1])
           message == FirstSupportedMessage(local.messages[1])
           returned == [call EXCEPT !.pc = "returned", !.outOfBandRecord = record.id]
       IN IF IsDefined(local.existingConnection)
          THEN IF ~IsDefined(message)
               THEN /\ call' = Throw(call.op, "NoSupportedMessage")
                    /\ UNCHANGED effects
               ELSE /\ effects' = Append(effects,
                          [Effect("AgentMessageReceived", 0, local.existingConnection[1].id)
                              EXCEPT !.message = message])
                    /\ call' = returned
          ELSE IF Len(services) = 0
          THEN /\ call' = Throw(call.op, "NoServices")
               /\ UNCHANGED effects
          ELSE IF ~IsDefined(message)
          THEN /\ call' = Throw(call.op, "NoSupportedMessage")
               /\ UNCHANGED effects
          ELSE /\ effects' = Append(effects,
                     [Effect("AgentMessageReceived", 0, 0) EXCEPT !.message = message])
               /\ call' = returned
    /\ UNCHANGED <<parked, registry, store, connections, made, config, local, reuseWait,
                   readyWaits>>

(***************************************************************************)
(* The deferred delivery (lines 652-664) and the connections module        *)
(***************************************************************************)
\* returnWhenIsConnected resolves once the connection is ready, and
\* emitWithConnection delivers; its error is logged, not thrown
ReadyWaitResolves(i) ==
    /\ readyWaits[i].status = "pending"
    /\ \E c \in Range(connections) : c.id = readyWaits[i].connection /\ c.isReady
    /\ LET message == FirstSupportedMessage(readyWaits[i].messages)
       IN readyWaits' = [readyWaits EXCEPT
             ![i].status = IF IsDefined(message) THEN "delivered" ELSE "failed",
             ![i].delivered = message]
    /\ UNCHANGED <<parked, registry, store, connections, made, call, config, local, effects,
                   reuseWait>>

\* ReadyWaitTimeout with the messages delivered all the same
ReadyWaitTimeoutDelivers(i) ==
    /\ readyWaits[i].status = "pending"
    /\ readyWaits' = [readyWaits EXCEPT
          ![i].status = "abandoned",
          ![i].delivered = FirstSupportedMessage(readyWaits[i].messages)]
    /\ UNCHANGED <<parked, registry, store, connections, made, call, config, local, effects,
                   reuseWait>>

\* the accept-timeout passes, or the agent unsubscribes: logged, nothing delivered
ReadyWaitTimeout(i) ==
    /\ readyWaits[i].status = "pending"
    /\ readyWaits' = [readyWaits EXCEPT ![i].status = "abandoned"]
    /\ UNCHANGED <<parked, registry, store, connections, made, call, config, local, effects,
                   reuseWait>>

\* the handshake of a connection completes
ConnectionReady(i) ==
    /\ ~connections[i].isReady
    /\ connections' = [connections EXCEPT ![i].isReady = TRUE]
    /\ UNCHANGED <<parked, registry, store, made, call, config, local, effects, reuseWait,
                   readyWaits>>

\* the connections module makes a connection on its own: a peer answers an
\* invitation this agent created
PeerConnects(outOfBandId, invitationDid) ==
    /\ Len(connections) < MaxConnections
    /\ connections' = Append(connections,
          ConnectionRecord(Len(connections) + 1, outOfBandId, invitationDid, FALSE))
    /\ UNCHANGED <<parked, registry, store, made, call, config, local, effects, reuseWait,
                   readyWaits>>

(***************************************************************************)
(* deleteById                                                              *)
(***************************************************************************)
DeleteConfig(outOfBandId) == [op |-> "deleteById", outOfBandId |-> outOfBandId]

\* ReleasesRouting with reusable not looked at
ReleasesRoutingWithoutConnections(record) ==
    /\ IsDefined(record.mediatorId)
    /\ Len(findAllByOutOfBandId(record.id)) = 0

\* line 743: whether the routing keys are released
ReleasesRouting(record) ==
    /\ IsDefined(record.mediatorId)
    /\ (Len(findAllByOutOfBandId(record.id)) = 0 \/ record.reusable)

\* deleteById with the record deleted before the routing keys are released
DeleteByIdDeleteFirst(cfg, removeRoutingFails) ==
    /\ Idle
    /\ config' = cfg
    /\ local' = [IdleLocal EXCEPT !.pre = store]
    /\ LET found == getById(cfg.outOfBandId)
           record == CHOOSE r \in found : TRUE
           recipientKeys == [i \in 1..Len(record.recipientKeyFingerprints) |->
                                KeyFromFingerprint(record.recipientKeyFingerprints[i])]
           removeRouting == [Effect("removeRouting", record.id, 0)
                                EXCEPT !.recipientKeys = recipientKeys,
                                       !.mediatorId = record.mediatorId]
       IN IF found = {}
          THEN /\ call' = Throw("deleteById", "RecordNotFound")
               /\ effects' = <<>>
               /\ store' = store
          ELSE IF ReleasesRouting(record) /\ removeRoutingFails
          THEN /\ call' = Throw("deleteById", "RemoveRoutingFailed")
               /\ effects' = <<Effect("deleteById", record.id, 0)>>
               /\ store' = store \ {record}
          ELSE /\ call' = At("deleteById", "returned")
               /\ effects' = <<Effect("deleteById", record.id, 0)>>
                             \o (IF ReleasesRouting(record) THEN <<removeRouting>> ELSE <<>>)
               /\ store' = store \ {record}
    /\ UNCHANGED <<parked, registry, connections, made, reuseWait, readyWaits>>

\* lines 735-753; removeRoutingFails: routingService.removeRouting throws
DeleteById(cfg, removeRoutingFails) ==
    /\ Idle
    /\ config' = cfg
    /\ local' = [IdleLocal EXCEPT !.pre = store]
    /\ LET found == getById(cfg.outOfBandId)
           record == CHOOSE r \in found : TRUE
           recipientKeys == [i \in 1..Len(record.recipientKeyFingerprints) |->
                                KeyFromFingerprint(record.recipientKeyFingerprints[i])]
           removeRouting == [Effect("removeRouting", record.id, 0)
                                EXCEPT !.recipientKeys = recipientKeys,
                                       !.mediatorId = record.mediatorId]
       IN IF found = {}
          THEN /\ call' = Throw("deleteById", "RecordNotFound")
               /\ effects' = <<>>
               /\ store' = store
          ELSE IF ReleasesRouting(record) /\ removeRoutingFails
          THEN /\ call' = Throw("deleteById", "RemoveRoutingFailed")
               /\ effects' = <<>>
               /\ store' = store
          ELSE /\ call' = At("deleteById", "returned")
               /\ effects' = (IF ReleasesRouting(record) THEN <<removeRouting>> ELSE <<>>)
                             \o <<Effect("deleteById", record.id, 0)>>
               /\ store' = store \ {record}
    /\ UNCHANGED <<parked, registry, connections, made, reuseWait, readyWaits>>

(***************************************************************************)
(* Inputs                                                                  *)
(***************************************************************************)
OptionalBoolean == {Undefined, Some(TRUE), Some(FALSE)}

Offer == Message("offer-credential", TRUE)

Request == Message("request-presentation", FALSE)

Unknown == Message("unknown-type", FALSE)

\* the attachments of a received invitation that carries these messages
Attach(messages) == [i \in 1..Len(messages) |-> [data |-> messages[i]]]

PeerService ==
    OutOfBandDidCommService("#inline-0", "https://peer.example", <<DidKeyDid("k1")>>, <<>>)

\* createInvitation: every combination of the options lines 191-216 read
AllCreateConfigs ==
    {CreateConfig(Undefined, h, hp, m, mu, r) :
        h \in OptionalBoolean,
        hp \in {Undefined, Some(<<>>), Some(<<DidExchange>>),
                Some(<<Connections, DidExchange>>), Some(<<TrustPing>>)},
        m \in {Undefined, Some(<<>>), Some(<<Offer>>)},
        mu \in OptionalBoolean,
        r \in {Undefined, Some(MediatedRouting)}}
    \cup {CreateConfig(Some(v), Undefined, Undefined, m, Undefined, Undefined) :
            v \in {"v1", "v2"}, m \in {Undefined, Some(<<Offer>>)}}

\* createInvitation: the defaults, an invalid combination, an unsupported
\* protocol, and a v2 invitation
CreateConfigs ==
    {CreateConfig(Undefined, Undefined, Undefined, Undefined, Undefined, Undefined),
     CreateConfig(Undefined, Some(FALSE), Undefined, Some(<<>>), Undefined, Undefined),
     CreateConfig(Undefined, Undefined, Some(<<TrustPing>>), Undefined, Undefined, Undefined),
     CreateConfig(Some("v2"), Undefined, Undefined, Undefined, Undefined, Undefined)}

\* invitations a peer may hand over
ReceivedInvitations ==
    {OutOfBandInvitation("inv-a", <<PeerService>>, Some(<<Connections, DidExchange>>), Undefined),
     OutOfBandInvitation("inv-b", <<PeerService>>, Undefined, Some(Attach(<<Unknown, Offer>>))),
     OutOfBandInvitation("inv-b", <<PeerService>>, Undefined, Undefined),
     ConnectionInvitationMessage("inv-a", "https://peer.example", <<"k1">>, <<>>),
     V2OutOfBandInvitation("inv-a", <<>>)}

\* the invitations of the records this agent created: it may connect to itself
CreatedInvitations ==
    {r.outOfBandInvitation[1] : r \in {x \in store : x.role = "Sender"
                                                      /\ IsDefined(x.outOfBandInvitation)}}

ReceiveConfigs == {ReceiveConfig(a, Undefined, Undefined, Undefined) : a \in OptionalBoolean}

(***************************************************************************)
(* The specification                                                       *)
(***************************************************************************)
\* the state after construction, for an agent among agents
InitOf(agents) ==
    /\ registry \in agents
    /\ store = {}
    /\ connections = <<>>
    /\ made = [Sender |-> 0, Receiver |-> 0]
    /\ call = IdleCall
    /\ config = NoConfig
    /\ local = IdleLocal
    /\ effects = <<>>
    /\ reuseWait = NoReuseWait
    /\ readyWaits = <<>>
    /\ parked = <<>>

Init == InitOf({<<>>, <<Connections, DidExchange>>})

InitAny == InitOf(RegistryChoices)

(***************************************************************************)
(* SpecCreate: createInvitation over every combination of its options      *)
(***************************************************************************)
NextCreate ==
    \/ \E cfg \in AllCreateConfigs, r \in RoutingServiceChoices : CreateInvitation(cfg, r)
    \/ CreateSave
    \/ CreateEmit
    \/ Return

SpecCreate == InitAny /\ [][NextCreate]_vars

\* the errors the spec calls configuration errors
CreateConfigurationErrors ==
    {"HandshakeOrRequestsRequired", "HandshakeFalseWithHandshakeProtocols",
     "MultiUseWithMessages", "RequestedHandshakeProtocolsNotSupported",
     "NoHandshakeProtocolSupported"}

\* a createInvitation call for a v1 invitation has been evaluated
CreatedV1Call ==
    /\ call.op = "createInvitation"
    /\ config.version # Some("v2")

HasMessages(cfg) == IsDefined(cfg.messages) /\ cfg.messages[1] # <<>>

\* C4: a v1 createInvitation fails with a configuration error when handshake is
\* false and there are no messages (none or an empty list), when handshake is
\* false and a handshakeProtocols list is given, and when there is at least
\* one message and multiUseInvitation is true.
C4_InvalidCombinationsFail ==
    (/\ CreatedV1Call
     /\ \/ config.handshake = Some(FALSE) /\ ~HasMessages(config)
        \/ config.handshake = Some(FALSE) /\ IsDefined(config.handshakeProtocols)
        \/ HasMessages(config) /\ config.multiUseInvitation = Some(TRUE))
    => (call.pc = "failed" /\ call.error \in CreateConfigurationErrors)

C4_Witness ==
    /\ CreatedV1Call
    /\ call.pc = "failed"
    /\ call.error = "MultiUseWithMessages"
    /\ config.handshake # Some(FALSE)

\* C5: the invitation of every v1 record createInvitation has stored declares
\* at least one handshake protocol or at least one request.
C5_HandshakeOrRequest ==
    \A r \in store :
        (r.role = "Sender" /\ IsDefined(r.outOfBandInvitation)) =>
            LET invitation == r.outOfBandInvitation[1]
            IN \/ IsDefined(invitation.handshakeProtocols)
                  /\ invitation.handshakeProtocols[1] # <<>>
               \/ IsDefined(invitation.requests) /\ invitation.requests[1] # <<>>

\* the fingerprints of the recipient keys of the inline services of an invitation
ServiceKeyFingerprints(invitation) ==
    {Fingerprint(DidKeyFromDid(invitation.services[i].recipientKeys[k])) :
        <<i, k>> \in {ik \in (1..Len(invitation.services)) \X (1..3) :
                        ik[2] <= Len(invitation.services[ik[1]].recipientKeys)}}

\* C9: a successful createInvitation (v1 or v2) has added exactly one record,
\* with role Sender and state AwaitResponse, has saved it and then emitted
\* exactly one state-changed event for it with previousState null; no event is
\* emitted for a record that is not stored; a v1 record is tagged with the
\* fingerprints of the recipient keys of its invitation's services.
C9_CreateResult ==
    /\ (call.op = "createInvitation" /\ call.pc = "returned") =>
          \E r \in store :
              /\ r.id = call.outOfBandRecord
              /\ r \notin local.pre
              /\ store = local.pre \cup {r}
              /\ r.role = "Sender"
              /\ r.state = "AwaitResponse"
              /\ Len(effects) = 2
              /\ effects[1].kind = "save" /\ effects[1].record = r.id
              /\ effects[2].kind = "stateChanged" /\ effects[2].record = r.id
              /\ effects[2].previousState = "null"
              /\ IsDefined(r.outOfBandInvitation) =>
                    Range(r.recipientKeyFingerprints)
                        = ServiceKeyFingerprints(r.outOfBandInvitation[1])
    /\ call.op = "createInvitation" =>
          \A i \in 1..Len(effects) :
              effects[i].kind = "stateChanged" =>
                  /\ \E r \in store : r.id = effects[i].record
                  /\ \E j \in 1..(i - 1) :
                        effects[j].kind = "save" /\ effects[j].record = effects[i].record

C9_Witness ==
    /\ call.op = "createInvitation"
    /\ call.pc = "returned"
    /\ config.routing = Some(MediatedRouting)
    /\ \E r \in store : r.id = call.outOfBandRecord /\ Len(r.recipientKeyFingerprints) = 2

(***************************************************************************)
(* Spec: creation, reception and the acceptance reception starts           *)
(***************************************************************************)
Next ==
    \/ \E cfg \in CreateConfigs : CreateInvitation(cfg, DirectRouting)
    \/ CreateSave
    \/ CreateEmit
    \/ \E i \in ReceivedInvitations \cup CreatedInvitations, cfg \in ReceiveConfigs :
          ReceiveInvitation(i, cfg)
    \/ \E did \in PublicDids, cfg \in ReceiveConfigs :
          ReceiveImplicitInvitation(did, Undefined, cfg)
    \/ ReceiveSave
    \/ ReceiveEmit
    \/ AcceptBegin
    \/ AcceptHandshake
    \/ AcceptMessages
    \/ AcceptConnectionless
    \/ Return

Spec == Init /\ [][Next]_vars

ReceiveConfigurationErrors == {"HandshakeOrRequestsRequired", "InvitationAlreadyReceived"}

\* the v1 invitation a receive call works on: legacy invitations converted
ReceivedV1(invitation) ==
    IF invitation.type = "OutOfBandInvitation" THEN invitation
    ELSE convertToNewInvitation(invitation)

\* a receive call for a v1 or legacy invitation
ReceiveV1Call ==
    /\ call.op = "receiveInvitation"
    /\ config.invitation[1].type # "V2OutOfBandInvitation"

\* the Receiver records with this invitation id that hold a v1 invitation
\* received as implicit or not
ReceiverRecords(records, invitationId, implicit) ==
    {r \in records : /\ r.role = "Receiver"
                     /\ IsDefined(r.outOfBandInvitation)
                     /\ InvitationId(r) = invitationId
                     /\ r.implicit = implicit}

\* C1: with calls that do not overlap, receiving a v1 or legacy invitation
\* that is not implicit fails when a Receiver record with its id exists
\* already, so no id has two Receiver records that were received as not
\* implicit; an implicit invitation is never rejected as a duplicate, is
\* stored each time it is received, and fails only if the acceptance that
\* follows the reception fails.
C1_Deduplication ==
    /\ (/\ ReceiveV1Call
        /\ ~config.isImplicit
        /\ \E r \in local.pre :
              r.role = "Receiver" /\ InvitationId(r) = config.invitation[1].id)
       => (call.pc = "failed" /\ call.error \in ReceiveConfigurationErrors
           /\ store = local.pre)
    /\ \A r \in store : Cardinality(ReceiverRecords(store, InvitationId(r), FALSE)) <= 1
    /\ (ReceiveV1Call /\ config.isImplicit) =>
          /\ call.error \notin ReceiveConfigurationErrors
          /\ call.pc \notin {"save"} =>
                \E r \in store \ local.pre :
                    /\ r.implicit
                    /\ InvitationId(r) = config.invitation[1].id
                    /\ Cardinality(ReceiverRecords(store, InvitationId(r), TRUE))
                          = Cardinality(ReceiverRecords(local.pre, InvitationId(r), TRUE)) + 1
          /\ call.pc = "failed" =>
                /\ Len(effects) > 2
                /\ call.error \in {"NoHandshakeProtocolSupported",
                                   "InvitationHandshakeProtocolsNotSupported"}

C1_Witness ==
    /\ ReceiveV1Call
    /\ ~config.isImplicit
    /\ call.pc = "failed" /\ call.error = "InvitationAlreadyReceived"
    /\ \E r \in store : Cardinality(ReceiverRecords(store, InvitationId(r), TRUE)) = 1

\* C8: when createInvitation or receiveInvitation fails with a configuration
\* error (an invalid combination of handshake, messages and multi-use, a
\* requested handshake protocol that is not supported, an invitation with
\* neither handshake protocols nor requests, a duplicate invitation id), the
\* stored records are those from before the call, no state-changed event has
\* been emitted and no acceptance has started.
C8_FailureLeavesNoTrace ==
    (/\ call.pc = "failed"
     /\ \/ call.op = "createInvitation" /\ call.error \in CreateConfigurationErrors
        \/ call.op = "receiveInvitation" /\ call.error \in ReceiveConfigurationErrors)
    => (/\ store = local.pre
        /\ effects = <<>>
        /\ ~IsDefined(local.accept)
        /\ ~IsDefined(local.outOfBandRecord))

C8_Witness ==
    /\ call.pc = "failed"
    /\ call.op = "receiveInvitation"
    /\ call.error = "InvitationAlreadyReceived"
    /\ store # {}

\* the record a receive call has made
ReceivedRecord == local.outOfBandRecord[1]

\* effects holds an acceptance: a lookup, a handshake, a reuse, a delivery
AcceptanceEffects ==
    {i \in 1..Len(effects) : effects[i].kind \notin {"save", "stateChanged"}}

\* C10: a reception that succeeds makes one record with role Receiver and
\* state Initial, saves it and emits one state-changed event with
\* previousState null. With autoAcceptInvitation false it returns that record
\* alone, the record is still in Initial, and there is no lookup of an
\* existing connection, no reuse message, no handshake and no delivery. With
\* autoAcceptInvitation true or not given, acceptInvitation runs on the new
\* record after the event, and what it returns is returned.
C10_ReceiveResult ==
    (/\ call.op = "receiveInvitation"
     /\ call.pc # "save"
     /\ call.pc = "failed" => IsDefined(local.outOfBandRecord))
    => /\ Len(effects) >= 1
       /\ effects[1].kind = "save" /\ effects[1].record = ReceivedRecord.id
       /\ ReceivedRecord.role = "Receiver"
       /\ ReceivedRecord \notin local.pre
       /\ \E r \in store : /\ r.id = ReceivedRecord.id
                           /\ store \ {r} = local.pre
                           /\ r.role = "Receiver"
                           /\ Len(effects) <= 2 => r.state = "Initial"
       /\ call.pc # "emit" =>
             /\ effects[2].kind = "stateChanged" /\ effects[2].record = ReceivedRecord.id
             /\ effects[2].previousState = "null"
             /\ \A i \in 3..Len(effects) : effects[i].kind \notin {"save", "stateChanged"}
             /\ IF config.autoAcceptInvitation = Some(FALSE)
                THEN /\ call.pc = "returned"
                     /\ call.outOfBandRecord = ReceivedRecord.id
                     /\ call.connectionRecord = 0
                     /\ Len(effects) = 2
                     /\ ReceivedRecord \in store
                     /\ ReceivedRecord.state = "Initial"
                     /\ ~IsDefined(local.accept)
                     /\ reuseWait = NoReuseWait
                ELSE /\ IsDefined(local.accept)
                     /\ local.accept[1].outOfBandId = ReceivedRecord.id
                     /\ call.pc = "returned" =>
                           /\ call.outOfBandRecord = ReceivedRecord.id
                           /\ AcceptanceEffects # {}

C10_Witness ==
    /\ call.op = "receiveInvitation"
    /\ call.pc = "returned"
    /\ config.autoAcceptInvitation = Some(FALSE)
    /\ IsDefined(config.invitation[1].handshakeProtocols)

(***************************************************************************)
(* SpecDelete: records with and without a mediator, reusable or not, with  *)
(* and without connections made from them, and their deletion              *)
(***************************************************************************)
DeleteCreateConfigs ==
    {CreateConfig(Undefined, Undefined, Undefined, Undefined, mu, r) :
        mu \in {Undefined, Some(TRUE)}, r \in {Undefined, Some(MediatedRouting)}}

DeleteReceiveConfigs ==
    {ReceiveConfig(Some(FALSE), Undefined, Some(MediatedRouting), Undefined)}

DeleteReceivedInvitations ==
    {OutOfBandInvitation("inv-a", <<PeerService>>, Some(<<Connections, DidExchange>>), Undefined)}

\* the ids deleteById is called with: those given out so far and the next one
DeleteIds == 1..(MaxCreated + MaxReceived + 1)

NextDelete ==
    \/ \E cfg \in DeleteCreateConfigs : CreateInvitation(cfg, DirectRouting)
    \/ CreateSave
    \/ CreateEmit
    \/ \E i \in DeleteReceivedInvitations, cfg \in DeleteReceiveConfigs :
          ReceiveInvitation(i, cfg)
    \/ ReceiveSave
    \/ ReceiveEmit
    \/ \E r \in store : PeerConnects(r.id, "did:peer:1.remote")
    \/ \E id \in DeleteIds, removeRoutingFails \in BOOLEAN :
          DeleteById(DeleteConfig(id), removeRoutingFails)
    \/ Return

SpecDelete == InitOf({<<Connections, DidExchange>>}) /\ [][NextDelete]_vars

\* deleteById has returned for this record
Deleted(record) ==
    /\ call.op = "deleteById" /\ call.pc = "returned"
    /\ record \in local.pre
    /\ record.id = config.outOfBandId

\* the calls of routingService.removeRouting the call has made
RemoveRoutings == {i \in 1..Len(effects) : effects[i].kind = "removeRouting"}

\* the connections made from the record
Dependents(record) == Len(findAllByOutOfBandId(record.id))

\* C7 as stated: deleting a record whose mediatorId is set and which has no
\* dependent connection releases the routing keys exactly once; deleting a
\* reusable record releases them even if dependent connections exist;
\* deleting a record that is not reusable and has a dependent connection
\* releases nothing.
C7_AsStated ==
    \A record \in local.pre : Deleted(record) =>
        /\ (IsDefined(record.mediatorId) /\ Dependents(record) = 0)
              => Cardinality(RemoveRoutings) = 1
        /\ record.reusable => Cardinality(RemoveRoutings) = 1
        /\ (~record.reusable /\ Dependents(record) > 0)
              => RemoveRoutings = {}

\* C7: deleting a record whose mediatorId is set and which has no dependent
\* connection releases the routing keys exactly once, before the record is
\* deleted and for the recipient keys of its tags at its mediator; deleting a
\* reusable record whose mediatorId is set releases them once too, even if
\* dependent connections exist; deleting a record with no mediatorId, or one
\* that is not reusable and has a dependent connection, releases nothing. A
\* deleteById that fails deletes nothing.
C7_RoutingRelease ==
    /\ \A record \in local.pre : Deleted(record) =>
        /\ store = local.pre \ {record}
        /\ effects[Len(effects)].kind = "deleteById"
        /\ (IsDefined(record.mediatorId) /\ (Dependents(record) = 0 \/ record.reusable))
              => /\ RemoveRoutings = {1}
                 /\ Len(effects) = 2
                 /\ effects[1].mediatorId = record.mediatorId
                 /\ effects[1].recipientKeys =
                       [i \in 1..Len(record.recipientKeyFingerprints) |->
                           KeyFromFingerprint(record.recipientKeyFingerprints[i])]
        /\ ~IsDefined(record.mediatorId) => RemoveRoutings = {}
        /\ (~record.reusable /\ Dependents(record) > 0) => RemoveRoutings = {}
    /\ (call.op = "deleteById" /\ call.pc = "failed") =>
          (store = local.pre /\ effects = <<>>)

C7_Witness ==
    \E record \in local.pre :
        /\ Deleted(record)
        /\ record.reusable
        /\ IsDefined(record.mediatorId)
        /\ Dependents(record) > 0
        /\ RemoveRoutings = {1}

(***************************************************************************)
(* SpecAccept: reception with the acceptance it starts, connections that   *)
(* exist already, the reuse of a connection and the deferred delivery      *)
(***************************************************************************)
\* the did findExistingConnection derives from an invitation with PeerService
PeerDid == InvitationDids(OutOfBandInvitation("", <<PeerService>>, Undefined, Undefined))[1]

\* two invitation ids: at most one record of each is ever stored
AcceptedInvitations ==
    {OutOfBandInvitation("inv-a", <<PeerService>>, Some(<<Connections, DidExchange>>), Undefined),
     OutOfBandInvitation("inv-a", <<PeerService>>, Some(<<TrustPing>>), Undefined),
     OutOfBandInvitation("inv-a", <<PeerService>>, Some(<<DidExchange>>), Some(<<>>)),
     OutOfBandInvitation("inv-a", <<PeerService>>, Some(<<TrustPing, DidExchange>>),
                         Some(Attach(<<Unknown, Offer>>))),
     OutOfBandInvitation("inv-a", <<PeerService>>, Some(<<DidExchange>>),
                         Some(Attach(<<Unknown>>))),
     OutOfBandInvitation("inv-b", <<PeerService>>, Undefined,
                         Some(Attach(<<Unknown, Request, Offer>>))),
     OutOfBandInvitation("inv-b", <<PeerService>>, Undefined, Some(Attach(<<Unknown>>))),
     OutOfBandInvitation("inv-b", <<>>, Undefined, Some(Attach(<<Offer>>))),
     OutOfBandInvitation("inv-b", <<PeerService>>, Some(<<>>), Some(Attach(<<Offer>>)))}

\* an accept-timeout a caller gives
GivenTimeoutMs == 5000

AcceptReceiveConfigs ==
    {ReceiveConfig(Undefined, Undefined, Undefined, Undefined),
     ReceiveConfig(Undefined, Some(TRUE), Undefined, Some(GivenTimeoutMs))}

\* HandshakeReused events: the one the wait is for, and ones of another
\* thread, of another record on the same connection, and of another connection
HandshakeReusedEvents ==
    {<<reuseWait.reuseThreadId, reuseWait.outOfBandRecord, reuseWait.connectionRecord>>,
     <<"reuse-other", reuseWait.outOfBandRecord, reuseWait.connectionRecord>>,
     <<reuseWait.reuseThreadId, reuseWait.outOfBandRecord + 1, reuseWait.connectionRecord>>,
     <<reuseWait.reuseThreadId, reuseWait.outOfBandRecord, reuseWait.connectionRecord + 1>>}

NextAccept ==
    \/ \E i \in AcceptedInvitations, cfg \in AcceptReceiveConfigs : ReceiveInvitation(i, cfg)
    \/ ReceiveSave
    \/ ReceiveEmit
    \/ AcceptBegin
    \/ AcceptReuseStart
    \/ AcceptReuseSent
    \/ \E e \in HandshakeReusedEvents : HandshakeReusedEvent(e[1], e[2], e[3])
    \/ ReuseTimeout
    \/ AcceptReuseDone
    \/ AcceptHandshake
    \/ AcceptMessages
    \/ AcceptConnectionless
    \/ \E i \in 1..Len(readyWaits) : ReadyWaitResolves(i)
    \/ \E i \in 1..Len(readyWaits) : ReadyWaitTimeout(i)
    \/ \E i \in 1..Len(connections) : ConnectionReady(i)
    \/ PeerConnects(0, PeerDid)
    \/ Return

SpecAccept == InitAny /\ [][NextAccept]_vars

\* the call has got past getById and works on a v1 record
AcceptingV1 ==
    /\ \E i \in 1..Len(effects) : effects[i].kind = "findExistingConnection"
    /\ IsDefined(local.outOfBandRecord)
    /\ IsDefined(local.outOfBandRecord[1].outOfBandInvitation)

\* H and M of the record the call accepts
AcceptedHandshakeProtocols == local.outOfBandRecord[1].outOfBandInvitation[1].handshakeProtocols

AcceptedRequests == getRequests(local.outOfBandRecord[1].outOfBandInvitation[1])

\* the connection findExistingConnection came back with, 0 when none
ExistingConnectionId ==
    LET i == CHOOSE k \in 1..Len(effects) : effects[k].kind = "findExistingConnection"
    IN effects[i].connection

\* the handshakes the call has started
Handshakes == {i \in 1..Len(effects) : effects[i].kind = "acceptOutOfBandInvitation"}

\* the messages the call has handed to the agent
Dispatches == {i \in 1..Len(effects) : effects[i].kind = "AgentMessageReceived"}

\* the protocols this agent supports, as a set
SupportedSet ==
    {p \in Range(registry) : \E family \in Range(handshakeMessageFamilies) :
                                p.family = family}

UnsupportedProtocolErrors ==
    {"NoHandshakeProtocolSupported", "InvitationHandshakeProtocolsNotSupported"}

\* C2 as stated: acceptance of a v1 record with a non-empty handshake list and
\* no attached messages, with reuseConnection true and an existing connection
\* for the invitation, returns the existing connection and starts no handshake
\* when the matching HandshakeReused event came before the timeout, and starts
\* a handshake and returns the new connection when it did not.
C2_AsStated ==
    (/\ AcceptingV1
     /\ ExistingConnectionId # 0
     /\ local.accept[1].reuseConnection = Some(TRUE)
     /\ IsDefined(AcceptedHandshakeProtocols) /\ Len(AcceptedHandshakeProtocols[1]) > 0
     /\ (~IsDefined(AcceptedRequests) \/ Len(AcceptedRequests[1]) = 0))
    => /\ call.pc # "failed"
       /\ call.pc = "returned" =>
             \/ /\ reuseWait.status = "accepted"
                /\ call.connectionRecord = ExistingConnectionId
                /\ Handshakes = {}
             \/ /\ reuseWait.status = "timedOut"
                /\ Cardinality(Handshakes) = 1
                /\ call.connectionRecord # ExistingConnectionId
                /\ \A i \in Handshakes : effects[i].connection = call.connectionRecord

\* C3: the protocol of every handshake acceptance starts is the first element
\* of the handshake list of the invitation, in the order of that list, that
\* this agent supports, whatever the order of the supported protocols; when
\* no element of the list is supported acceptance fails with an
\* unsupported-protocol error and starts no handshake.
C3_FirstSupportedProtocol ==
    AcceptingV1 =>
       /\ \A i \in Handshakes :
             /\ IsDefined(AcceptedHandshakeProtocols)
             /\ \E k \in 1..Len(AcceptedHandshakeProtocols[1]) :
                   /\ effects[i].protocol = Some(AcceptedHandshakeProtocols[1][k])
                   /\ AcceptedHandshakeProtocols[1][k] \in SupportedSet
                   /\ \A j \in 1..(k - 1) : AcceptedHandshakeProtocols[1][j] \notin SupportedSet
       /\ (/\ IsDefined(AcceptedHandshakeProtocols)
           /\ Range(AcceptedHandshakeProtocols[1]) \cap SupportedSet = {})
          => /\ Handshakes = {}
             /\ call.pc \in {"messages", "returned"} =>
                   /\ ExistingConnectionId # 0
                   /\ local.connectionRecord[1].id = ExistingConnectionId
             /\ (call.pc = "failed" /\ ~IsDefined(local.connectionRecord))
                   => call.error \in UnsupportedProtocolErrors
       /\ (call.pc = "failed" /\ call.error \in UnsupportedProtocolErrors)
          => /\ Handshakes = {}
             /\ IsDefined(AcceptedHandshakeProtocols)
             /\ Range(AcceptedHandshakeProtocols[1]) \cap SupportedSet = {}

C3_Witness ==
    /\ AcceptingV1
    /\ AcceptedHandshakeProtocols = Some(<<Connections, DidExchange>>)
    /\ OrderedProtocols = <<DidExchange, Connections>>
    /\ \E i \in Handshakes : effects[i].protocol = Some(Connections)

\* C6 as stated: acceptance of a v1 record with no handshake protocols and at
\* least one attached message, with no existing connection for the
\* invitation, hands exactly one message to the agent, the first attached one
\* of a supported type, with no connection; it fails and hands over nothing
\* when no attached message has a supported type or the invitation has no
\* services; when it succeeds it returns the record and no connection.
C6_AsStated ==
    (/\ AcceptingV1
     /\ ExistingConnectionId = 0
     /\ (~IsDefined(AcceptedHandshakeProtocols) \/ Len(AcceptedHandshakeProtocols[1]) = 0)
     /\ IsDefined(AcceptedRequests) /\ Len(AcceptedRequests[1]) > 0)
    => LET message == FirstSupportedMessage(AcceptedRequests[1])
           services == getServices(local.outOfBandRecord[1].outOfBandInvitation[1])
       IN /\ Handshakes = {}
          /\ call.pc = "failed" =>
                /\ Dispatches = {}
                /\ (~IsDefined(message) \/ Len(services) = 0)
          /\ call.pc = "returned" =>
                /\ IsDefined(message) /\ Len(services) > 0
                /\ Cardinality(Dispatches) = 1
                /\ \A i \in Dispatches : /\ effects[i].message = message
                                         /\ effects[i].connection = 0
                /\ call.connectionRecord = 0
                /\ call.outOfBandRecord = local.outOfBandRecord[1].id

(***************************************************************************)
(* Acceptance: the state of the record                                     *)
(***************************************************************************)
\* what acceptInvitation does once it has decided: the v2 delegation, the
\* reuse message, the handshake, the delivery and the delivery wait
DecisionEffects ==
    {i \in 1..Len(effects) :
        effects[i].kind \in {"v2AcceptInvitation", "sendHandshakeReuse",
                             "acceptOutOfBandInvitation", "AgentMessageReceived",
                             "returnWhenIsConnected"}}

\* C11 as stated: acceptInvitation sets the state of every record it finds,
\* with a v1 or a v2 invitation, to PrepareResponse before it delegates to v2,
\* reuses, negotiates or delivers, whatever comes of it; when it has returned
\* or failed past the lookup of the record, the record is in PrepareResponse.
C11_AsStated ==
    (/\ IsDefined(local.accept)
     /\ call.pc \in {"returned", "failed"}
     /\ call.error # "RecordNotFound")
    => /\ \E r \in store : /\ r.id = local.accept[1].outOfBandId
                           /\ r.state = "PrepareResponse"
       /\ \A i \in DecisionEffects :
             \E j \in 1..(i - 1) : effects[j].kind = "updateState"

(***************************************************************************)
(* Acceptance: delivery of the attached messages over a connection         *)
(***************************************************************************)
\* the call accepts a v1 record with handshake protocols and attached messages
AcceptingWithMessages ==
    /\ AcceptingV1
    /\ IsDefined(AcceptedHandshakeProtocols) /\ Len(AcceptedHandshakeProtocols[1]) > 0
    /\ IsDefined(AcceptedRequests) /\ Len(AcceptedRequests[1]) > 0

\* the returnWhenIsConnected waits the call has registered
RegisteredWaits == {i \in 1..Len(effects) : effects[i].kind = "returnWhenIsConnected"}

\* the connection with this id is ready
IsReady(connectionId) ==
    \E c \in Range(connections) : c.id = connectionId /\ c.isReady

\* what holds of a call that has returned and of every wait
DeliveryState ==
    /\ (AcceptingWithMessages /\ call.pc = "returned") =>
          \/ /\ Cardinality(Dispatches) = 1
             /\ RegisteredWaits = {}
             /\ IsReady(call.connectionRecord)
             /\ \A i \in Dispatches :
                   /\ effects[i].connection = call.connectionRecord
                   /\ effects[i].message = FirstSupportedMessage(AcceptedRequests[1])
                   /\ IsDefined(effects[i].message)
          \/ /\ Dispatches = {}
             /\ Cardinality(RegisteredWaits) = 1
             /\ \A i \in RegisteredWaits :
                   /\ effects[i].connection = call.connectionRecord
                   /\ effects[i].timeoutMs =
                         IF IsDefined(local.accept[1].timeoutMs)
                         THEN local.accept[1].timeoutMs[1] ELSE 20000
                   /\ readyWaits[Len(readyWaits)].connection = call.connectionRecord
                   /\ readyWaits[Len(readyWaits)].timeoutMs = effects[i].timeoutMs
    /\ \A i \in 1..Len(readyWaits) :
          /\ readyWaits[i].status = "delivered" =>
                /\ IsReady(readyWaits[i].connection)
                /\ IsDefined(readyWaits[i].delivered)
                /\ readyWaits[i].delivered = FirstSupportedMessage(readyWaits[i].messages)
          /\ readyWaits[i].status # "delivered" => ~IsDefined(readyWaits[i].delivered)

\* what holds of every step: the connection record the call holds is examined
\* once, a settled wait stays as it is, and a wait that is given up leaves
\* the call alone
DeliveryStep ==
    /\ (AcceptingWithMessages /\ call.pc = "messages" /\ call'.pc # "messages") =>
          IF local.connectionRecord[1].isReady
          THEN /\ readyWaits' = readyWaits
               /\ \/ call'.pc = "returned" /\ Len(effects') = Len(effects) + 1
                     /\ effects'[Len(effects')].kind = "AgentMessageReceived"
                  \/ call'.pc = "failed" /\ effects' = effects
          ELSE /\ call'.pc = "returned"
               /\ Len(readyWaits') = Len(readyWaits) + 1
               /\ readyWaits'[Len(readyWaits')].status = "pending"
               /\ effects'[Len(effects')].kind = "returnWhenIsConnected"
    /\ \A i \in 1..Len(readyWaits) :
          /\ readyWaits[i].status # "pending" => readyWaits'[i] = readyWaits[i]
          /\ readyWaits'[i].status \in {"abandoned", "delivered", "failed"} /\ readyWaits[i].status = "pending"
                => (call' = call /\ effects' = effects /\ store' = store)
          /\ (readyWaits[i].status = "pending" /\ readyWaits'[i].status = "delivered")
                => IsReady(readyWaits[i].connection)

\* C12: with handshake protocols and attached messages, a connection that is
\* ready when acceptInvitation examines it gets the first supported message
\* before acceptInvitation returns; otherwise acceptInvitation returns the
\* record and the connection without waiting and registers exactly one wait
\* with the accept-timeout (20000 ms when none is given); the wait delivers at
\* most once and only when the connection is ready, and when it times out or
\* is cancelled nothing is delivered and the caller gets no error.
C12_Delivery == []DeliveryState /\ [][DeliveryStep]_vars

C12_Witness ==
    /\ \E i \in 1..Len(readyWaits) :
          readyWaits[i].status = "delivered" /\ readyWaits[i].timeoutMs = 20000
    /\ \E i \in 1..Len(readyWaits) : readyWaits[i].status = "abandoned"

\* C13 as stated: an unsupported handshake protocol, attached messages of no
\* supported type and missing services always make the acceptInvitation call
\* that meets them fail, and no such failure is swallowed: when an invitation
\* with handshake protocols carries only messages of unsupported types,
\* acceptInvitation fails whether the connection is ready or not.
C13_AsStated ==
    /\ (/\ AcceptingV1
        /\ IsDefined(AcceptedRequests) /\ Len(AcceptedRequests[1]) > 0
        /\ ~IsDefined(FirstSupportedMessage(AcceptedRequests[1])))
       => call.pc # "returned"
    /\ (/\ AcceptingV1
        /\ IsDefined(AcceptedHandshakeProtocols)
        /\ Range(AcceptedHandshakeProtocols[1]) \cap SupportedSet = {}
        /\ ExistingConnectionId = 0)
       => call.pc # "returned"
    /\ \A i \in 1..Len(readyWaits) : readyWaits[i].status # "failed"

(***************************************************************************)
(* The reuse of a connection                                               *)
(***************************************************************************)
\* the payload the pending wait is for
AwaitedEvent ==
    <<reuseWait.reuseThreadId, reuseWait.outOfBandRecord, reuseWait.connectionRecord>>

\* C14: a reuse wait succeeds only on a HandshakeReused event whose thread id,
\* record and connection are all three those of the wait; an event that
\* differs in one of them, such as the one for another record on the same
\* connection, never makes it succeed.
C14_ReuseCorrelation ==
    /\ reuseWait.status = "accepted" => AwaitedEvent \in reuseWait.events
    /\ reuseWait.status \in {"pending", "timedOut"} => AwaitedEvent \notin reuseWait.events
    /\ reuseWait.status = "none" => reuseWait.events = {}

C14_Witness ==
    /\ reuseWait.status = "timedOut"
    /\ Cardinality(reuseWait.events) = 3

\* the reuse messages the call has sent
ReuseSends == {i \in 1..Len(effects) : effects[i].kind = "sendHandshakeReuse"}

\* the reuse has been tried and acceptInvitation has gone on
ReuseOver == call.pc \in {"handshake", "messages", "returned", "failed"}

ReuseState ==
    /\ Cardinality(ReuseSends) <= 1
    /\ reuseWait.status # "none" <=> ReuseSends # {}
    /\ (ReuseSends # {} /\ ReuseOver) => reuseWait.status \in {"accepted", "timedOut"}
    /\ reuseWait.status = "pending" => call.pc \in {"reuseSending", "reuseAwait"}
    /\ reuseWait.status = "accepted" => (Handshakes = {} /\ call.pc # "handshake")
    /\ (reuseWait.status = "timedOut" /\ call.pc = "failed")
          => call.error \in UnsupportedProtocolErrors
    /\ (reuseWait.status = "timedOut" /\ call.pc \in {"messages", "returned"})
          => Cardinality(Handshakes) = 1

ReuseStep ==
    /\ reuseWait.status \in {"accepted", "timedOut"}
          => reuseWait'.status \in {reuseWait.status, "none"}
    /\ (reuseWait.status = "pending" /\ reuseWait'.status = "timedOut")
          => call' = call
    /\ (ReuseSends # {} /\ call'.op = call.op) => effects'[CHOOSE i \in ReuseSends : TRUE]
                                                  = effects[CHOOSE i \in ReuseSends : TRUE]

\* C15: every run of the reuse sends the reuse message once and never again,
\* and ends in one outcome, accepted or not, that does not change; a timeout,
\* or the end of the event stream before a matching event, is the outcome
\* "not accepted": acceptInvitation gets no error from it and goes on to a
\* new handshake.
C15_ReuseOutcome == []ReuseState /\ [][ReuseStep]_vars

C15_Witness ==
    /\ reuseWait.status = "timedOut"
    /\ reuseWait.sent
    /\ call.pc = "returned"
    /\ Cardinality(Handshakes) = 1

(***************************************************************************)
(* Creation: the handshake protocols of the invitation                     *)
(***************************************************************************)
\* the supported handshake protocols, did-exchange before connections
CanonicalProtocols ==
    SelectSeq(<<DidExchange, Connections>>, LAMBDA p : p \in SupportedSet)

\* a v1 createInvitation with handshake on and no other fault in its options
CreatingWithHandshake ==
    /\ CreatedV1Call
    /\ config.handshake # Some(FALSE)
    /\ ~(HasMessages(config) /\ config.multiUseInvitation = Some(TRUE))

\* C16: at v1 creation with handshake on, a handshakeProtocols list that is
\* given is taken only if every entry is supported, else creation fails, and
\* is then the list of the invitation, entry by entry in the order given;
\* with no list given the invitation has all supported protocols,
\* did-exchange before connections; creation fails when no handshake
\* protocol is supported at all.
C16_CreatedHandshakeProtocols ==
    CreatingWithHandshake =>
       /\ call.pc = "failed" <=>
             \/ SupportedSet = {}
             \/ /\ IsDefined(config.handshakeProtocols)
                /\ ~(Range(config.handshakeProtocols[1]) \subseteq SupportedSet)
       /\ call.pc # "failed" =>
             local.outOfBandRecord[1].outOfBandInvitation[1].handshakeProtocols =
                IF IsDefined(config.handshakeProtocols) THEN config.handshakeProtocols
                ELSE Some(CanonicalProtocols)

C16_Witness ==
    /\ CreatingWithHandshake
    /\ call.pc = "returned"
    /\ registry = <<Connections, DidExchange>>
    /\ ~IsDefined(config.handshakeProtocols)
    /\ \E r \in store : /\ r.id = call.outOfBandRecord
                        /\ r.outOfBandInvitation[1].handshakeProtocols =
                              Some(<<DidExchange, Connections>>)

(***************************************************************************)
(* Reception of v2 invitations                                             *)
(***************************************************************************)
\* the Receiver records that hold a v2 invitation with this id
ReceiverV2Records(records, invitationId) ==
    {r \in records : /\ r.role = "Receiver"
                     /\ IsDefined(r.v2OutOfBandInvitation)
                     /\ r.v2OutOfBandInvitation[1].id = invitationId}

\* C17 as stated: receiving a v2 invitation whose id a Receiver record has
\* already fails with a configuration error, and one Receiver record with
\* that id is left.
C17_AsStated ==
    /\ (/\ call.op = "receiveInvitation"
        /\ config.invitation[1].type = "V2OutOfBandInvitation"
        /\ ReceiverV2Records(local.pre, config.invitation[1].id) # {})
       => (call.pc = "failed" /\ call.error \in ReceiveConfigurationErrors)
    /\ \A r \in store :
          IsDefined(r.v2OutOfBandInvitation) =>
             Cardinality(ReceiverV2Records(store, r.v2OutOfBandInvitation[1].id)) <= 1

(***************************************************************************)
(* SpecStates: acceptInvitation called by the user on any record id, for   *)
(* records this agent created and received, and deleteById                 *)
(***************************************************************************)
StatesCreateConfigs ==
    {CreateConfig(Undefined, Undefined, Undefined, Undefined, Undefined, Undefined)}

StatesReceivedInvitations ==
    {OutOfBandInvitation("inv-a", <<PeerService>>, Some(<<Connections, DidExchange>>), Undefined)}

StatesReceiveConfigs ==
    {ReceiveConfig(a, Undefined, Undefined, Undefined) : a \in {Undefined, Some(FALSE)}}

\* the ids acceptInvitation and deleteById are called with
StatesIds == 1..(MaxCreated + MaxReceived + 1)

NextStates ==
    \/ \E cfg \in StatesCreateConfigs : CreateInvitation(cfg, DirectRouting)
    \/ CreateSave
    \/ CreateEmit
    \/ \E i \in StatesReceivedInvitations, cfg \in StatesReceiveConfigs :
          ReceiveInvitation(i, cfg)
    \/ ReceiveSave
    \/ ReceiveEmit
    \/ \E id \in StatesIds :
          AcceptInvitation(AcceptConfig(id, Undefined, Undefined, Undefined))
    \/ AcceptBegin
    \/ AcceptHandshake
    \/ AcceptMessages
    \/ \E id \in StatesIds : DeleteById(DeleteConfig(id), FALSE)
    \/ Return

SpecStates == InitOf({<<Connections, DidExchange>>}) /\ [][NextStates]_vars

\* the state changes outOfBandService.updateState has made in this call
StateUpdates == {i \in 1..Len(effects) : effects[i].kind = "updateState"}

\* C18 as stated: acceptInvitation moves a Receiver record from Initial to
\* PrepareResponse and makes no other change of state; a Sender record stays
\* in AwaitResponse under createInvitation, receiveInvitation, acceptInvitation
\* on any record id and deleteById; a record that is in PrepareResponse is not
\* moved again by a second acceptInvitation.
C18_AsStated ==
    /\ \A r \in store : r.role = "Sender" => r.state = "AwaitResponse"
    /\ \A r \in store : r.role = "Receiver" => r.state \in {"Initial", "PrepareResponse"}
    /\ \A i \in StateUpdates :
          /\ effects[i].previousState = "Initial"
          /\ \E r \in store : r.id = effects[i].record /\ r.role = "Receiver"

(***************************************************************************)
(* Acceptance: empty handshake list, and messages with an existing         *)
(* connection                                                              *)
(***************************************************************************)
\* C19 as stated: a handshake list that is present and empty counts as
\* absent: with an attached message acceptInvitation delivers the first
\* supported message over the existing connection or to the services, returns
\* no connection, negotiates no protocol and does not fail with an
\* unsupported-protocol error.
C19_AsStated ==
    (/\ AcceptingV1
     /\ AcceptedHandshakeProtocols = Some(<<>>)
     /\ IsDefined(AcceptedRequests) /\ Len(AcceptedRequests[1]) > 0)
    => /\ Handshakes = {}
       /\ call.pc # "handshake"
       /\ ~(call.pc = "failed" /\ call.error \in UnsupportedProtocolErrors)
       /\ call.pc = "returned" => (call.connectionRecord = 0 /\ Cardinality(Dispatches) = 1)

\* the call accepts with messages, reuseConnection set and a connection found
AcceptingOverExisting ==
    /\ AcceptingWithMessages
    /\ local.accept[1].reuseConnection = Some(TRUE)
    /\ ExistingConnectionId # 0

OtherService ==
    OutOfBandDidCommService("#inline-1", "https://other.example", <<DidKeyDid("k2")>>, <<>>)

DirectReceivedInvitations ==
    {V2OutOfBandInvitation("inv-a", <<>>),
     V2OutOfBandInvitation("inv-a", Attach(<<Offer>>)),
     OutOfBandInvitation("inv-b", <<PeerService>>, Some(<<DidExchange>>), Undefined),
     OutOfBandInvitation("inv-b", <<OtherService, PeerService>>, Some(<<DidExchange>>),
                         Undefined),
     OutOfBandInvitation("inv-b", <<PeerService>>, Some(<<TrustPing>>), Undefined),
     OutOfBandInvitation("inv-b", <<PeerService>>, Undefined, Some(Attach(<<Unknown>>))),
     OutOfBandInvitation("inv-b", <<>>, Undefined, Some(Attach(<<Offer>>)))}

DirectReceiveConfigs ==
    {ReceiveConfig(a, Some(TRUE), r, Undefined) :
        a \in {Undefined, Some(FALSE)}, r \in {Undefined, Some(MediatedRouting)}}

\* the ids acceptInvitation is called with
DirectIds == 1..(MaxReceived + 1)

\* acceptInvitation with nothing given, and with reuseConnection and a routing
DirectAcceptConfigs ==
    {AcceptConfig(id, o[1], o[2], Undefined) :
        id \in DirectIds,
        o \in {<<Undefined, Undefined>>, <<Some(TRUE), Some(DirectRouting)>>}}

NextDirect ==
    \/ \E i \in DirectReceivedInvitations, cfg \in DirectReceiveConfigs : ReceiveInvitation(i, cfg)
    \/ ReceiveSave
    \/ ReceiveEmit
    \/ \E cfg \in DirectAcceptConfigs : AcceptInvitation(cfg)
    \/ AcceptBegin
    \/ AcceptReuseStart
    \/ AcceptReuseSent
    \/ \E e \in HandshakeReusedEvents : HandshakeReusedEvent(e[1], e[2], e[3])
    \/ ReuseTimeout
    \/ AcceptReuseDone
    \/ AcceptHandshake
    \/ AcceptMessages
    \/ AcceptConnectionless
    \/ PeerConnects(0, PeerDid)
    \/ Return

SpecDirect == InitOf({<<Connections, DidExchange>>}) /\ [][NextDirect]_vars

\* the receive call in flight has saved its record
ReceiveSaved ==
    /\ call.op = "receiveInvitation"
    /\ \E i \in 1..Len(effects) : effects[i].kind = "save"

\* the invitation of a record declares no handshake protocol
Connectionless(record) ==
    \/ IsDefined(record.v2OutOfBandInvitation)
    \/ ~IsDefined(record.outOfBandInvitation[1].handshakeProtocols)
    \/ record.outOfBandInvitation[1].handshakeProtocols[1] = <<>>

\* C21 as stated: the routing given to receiveInvitation is kept in the
\* record exactly when the invitation declares no handshake protocol or
\* autoAcceptInvitation is false, and what is kept is that routing; every
\* handshake acceptance starts uses the routing of the caller when one is
\* given, else the routing the record keeps, else none.
C21_AsStated ==
    /\ ReceiveSaved =>
          /\ IsDefined(ReceivedRecord.recipientRouting)
                <=> /\ IsDefined(config.routing)
                    /\ \/ Connectionless(ReceivedRecord)
                       \/ config.autoAcceptInvitation = Some(FALSE)
          /\ IsDefined(ReceivedRecord.recipientRouting) =>
                ReceivedRecord.recipientRouting[1] = RecipientRouting(config.routing[1])
    /\ \A i \in Handshakes :
          IF IsDefined(local.accept[1].routing)
          THEN effects[i].routing = local.accept[1].routing
          ELSE IF IsDefined(local.outOfBandRecord[1].recipientRouting)
          THEN /\ IsDefined(effects[i].routing)
               /\ RecipientRouting(effects[i].routing[1])
                     = local.outOfBandRecord[1].recipientRouting[1]
          ELSE effects[i].routing = Undefined

\* the call accepts a record that holds a v2 invitation
AcceptingV2 ==
    /\ IsDefined(local.accept)
    /\ call.pc # "accept"
    /\ \E r \in getById(local.accept[1].outOfBandId) : IsDefined(r.v2OutOfBandInvitation)

\* C22: acceptance of a record that holds a v2 invitation is the call of
\* v2OutOfBandService.acceptInvitation and nothing else: no lookup of an
\* existing connection, no reuse message and no wait for its answer, no
\* handshake, no delivery and no delivery wait, whatever reuseConnection and
\* routing are; it returns the record and the connection v2 produced, none
\* when v2 produced none.
C22_V2Delegation ==
    AcceptingV2 =>
       /\ call.pc = "returned"
       /\ call.outOfBandRecord = local.accept[1].outOfBandId
       /\ Cardinality(AcceptanceEffects) = 1
       /\ \A i \in AcceptanceEffects :
             /\ effects[i].kind = "v2AcceptInvitation"
             /\ effects[i].record = call.outOfBandRecord
             /\ effects[i].connection = call.connectionRecord
       /\ reuseWait = NoReuseWait
       /\ readyWaits = <<>>

C22_Witness ==
    /\ AcceptingV2
    /\ call.op = "acceptInvitation"
    /\ local.accept[1].reuseConnection = Some(TRUE)
    /\ IsDefined(local.accept[1].routing)
    /\ call.connectionRecord # 0
    /\ \E i \in 1..Len(connections) : connections[i].invitationDid = PeerDid
    /\ \E r \in store : r.id = call.outOfBandRecord /\ IsDefined(r.recipientRouting) = FALSE

(***************************************************************************)
(* The lookup of an existing connection                                    *)
(***************************************************************************)
\* the invitation dids of the record the call accepts
AcceptedDids == InvitationDids(local.outOfBandRecord[1].outOfBandInvitation[1])

\* the connections made from a did, as indexes in discovery order
Correlated(known, did) == {i \in 1..Len(known) : known[i].invitationDid = did}

\* the id of the first connection made from a did, 0 when there is none
FirstConnection(known, did) ==
    IF Correlated(known, did) = {} THEN 0
    ELSE known[CHOOSE i \in Correlated(known, did) :
                   \A j \in Correlated(known, did) : i <= j].id

AcceptanceErrors == UnsupportedProtocolErrors \cup {"NoSupportedMessage", "NoServices"}

\* C23: the lookup of an existing connection comes back with the first
\* connection, in discovery order, made from the first invitation did,
\* however many there are, so with the same one whenever the connections are
\* the same; several connections never make the acceptance fail.
C23_FirstInDiscoveryOrder ==
    (AcceptingV1 /\ AcceptedDids # <<>>) =>
       /\ ExistingConnectionId = FirstConnection(local.known, AcceptedDids[1])
       /\ IsDefined(local.existingConnection) =>
             local.existingConnection[1].id = ExistingConnectionId
       /\ call.pc = "failed" => call.error \in AcceptanceErrors

C23_Witness ==
    /\ AcceptingV1
    /\ AcceptedDids # <<>>
    /\ Cardinality(Correlated(local.known, AcceptedDids[1])) > 1
    /\ ExistingConnectionId = local.known[1].id
    /\ call.pc = "returned"

\* C24: the lookup looks at the first invitation did only: when no
\* connection was made from it the lookup finds none, whatever connections
\* were made from the other dids of the invitation, and acceptance with
\* reuseConnection true sends no reuse message and starts a handshake for a
\* new connection.
C24_FirstDidOnly ==
    (/\ AcceptingV1
     /\ AcceptedDids # <<>>
     /\ Correlated(local.known, AcceptedDids[1]) = {})
    => /\ ExistingConnectionId = 0
       /\ ~IsDefined(local.existingConnection)
       /\ ReuseSends = {}
       /\ reuseWait = NoReuseWait
       /\ (call.pc = "returned" /\ IsDefined(AcceptedHandshakeProtocols)) =>
             /\ Cardinality(Handshakes) = 1
             /\ \A i \in Handshakes : effects[i].connection = call.connectionRecord
             /\ \A i \in 1..Len(local.known) : local.known[i].id # call.connectionRecord

C24_Witness ==
    /\ AcceptingV1
    /\ local.accept[1].reuseConnection = Some(TRUE)
    /\ Len(AcceptedDids) = 2
    /\ Correlated(local.known, AcceptedDids[1]) = {}
    /\ Correlated(local.known, AcceptedDids[2]) # {}
    /\ call.pc = "returned"
    /\ Handshakes # {}

(***************************************************************************)
(* SpecRace: receptions that overlap. A call that waits at an await gives  *)
(* way to another call and goes on later                                   *)
(***************************************************************************)
\* a call and what belongs to it
Context(c, cfg, l, e) == [call |-> c, config |-> cfg, local |-> l, effects |-> e]

\* the call in flight waits at an await: another call may start or go on
Park ==
    /\ call.op # "idle"
    /\ call.pc \notin {"returned", "failed"}
    /\ Len(parked) < MaxParked
    /\ parked' = Append(parked, Context(call, config, local, effects))
    /\ call' = IdleCall
    /\ config' = NoConfig
    /\ local' = IdleLocal
    /\ effects' = <<>>
    /\ UNCHANGED <<registry, store, connections, made, reuseWait, readyWaits>>

\* what a waiting call awaited has come: the call goes on
Resume(i) ==
    /\ Idle
    /\ call' = parked[i].call
    /\ config' = parked[i].config
    /\ local' = parked[i].local
    /\ effects' = parked[i].effects
    /\ parked' = [k \in 1..(Len(parked) - 1) |-> IF k < i THEN parked[k] ELSE parked[k + 1]]
    /\ UNCHANGED <<registry, store, connections, made, reuseWait, readyWaits>>

RaceInvitations ==
    {OutOfBandInvitation("inv-a", <<PeerService>>, Some(<<DidExchange>>), Undefined),
     OutOfBandInvitation("inv-b", <<PeerService>>, Undefined, Some(Attach(<<Offer>>))),
     ConnectionInvitationMessage("inv-a", "https://peer.example", <<"k1">>, <<>>)}

RaceReceiveConfigs == {ReceiveConfig(Some(FALSE), Undefined, Undefined, Undefined)}

NextRace ==
    \/ \E i \in RaceInvitations, cfg \in RaceReceiveConfigs : ReceiveInvitation(i, cfg)
    \/ \E did \in PublicDids, cfg \in RaceReceiveConfigs :
          ReceiveImplicitInvitation(did, Undefined, cfg)
    \/ ReceiveSave
    \/ ReceiveEmit
    \/ Park
    \/ \E i \in 1..Len(parked) : Resume(i)
    \/ Return

SpecRace == InitOf({<<Connections, DidExchange>>}) /\ [][NextRace]_vars

\* the calls there are: the one in flight and those that wait
Contexts == {Context(call, config, local, effects)} \cup Range(parked)

\* the receptions of v1 and legacy invitations that are not implicit
Receptions ==
    {c \in Contexts : /\ c.call.op = "receiveInvitation"
                      /\ c.config.invitation[1].type # "V2OutOfBandInvitation"
                      /\ ~c.config.isImplicit}

\* C25: the duplicate check is the query alone: a reception is rejected as a
\* duplicate only when its own query found a Receiver record with the id; a
\* reception whose query found none goes on to save its record whatever has
\* been saved since, so two receptions of one id whose queries both ran
\* before either save both succeed and leave two Receiver records with that
\* id; a second record with the id of a saved one was never there when the
\* query of the first ran.
C25_QueryThenSave ==
    \A c \in Receptions :
        LET id == c.config.invitation[1].id
        IN /\ (c.call.pc = "failed" /\ c.call.error = "InvitationAlreadyReceived")
                 <=> ReceiverRecords(c.local.pre, id, FALSE) # {}
           /\ c.call.pc = "failed" => c.call.error \in ReceiveConfigurationErrors
           /\ c.call.pc \in {"emit", "returned"} =>
                 /\ c.local.outOfBandRecord[1] \in store
                 /\ ReceiverRecords(store, id, FALSE) \cap c.local.pre = {}

C25_Witness ==
    /\ call.op = "receiveInvitation"
    /\ call.pc = "returned"
    /\ ~config.isImplicit
    /\ Cardinality(ReceiverRecords(store, config.invitation[1].id, FALSE)) = 2
    /\ parked = <<>>

C27_AsStated ==
    (/\ AcceptingV1
     /\ ExistingConnectionId # 0
     /\ (~IsDefined(AcceptedHandshakeProtocols) \/ Len(AcceptedHandshakeProtocols[1]) = 0)
     /\ IsDefined(AcceptedRequests) /\ Len(AcceptedRequests[1]) > 0)
    => /\ Handshakes = {}
       /\ ReuseSends = {}
       /\ RegisteredWaits = {}
       /\ call.pc \in {"connectionless", "returned", "failed"}
       /\ call.pc = "failed" => call.error = "NoSupportedMessage"
       /\ call.pc = "returned" =>
             /\ call.connectionRecord = 0
             /\ call.outOfBandRecord = local.outOfBandRecord[1].id
             /\ Cardinality(Dispatches) = 1
             /\ \A i \in Dispatches :
                   /\ effects[i].connection = ExistingConnectionId
                   /\ effects[i].message = FirstSupportedMessage(AcceptedRequests[1])

(***************************************************************************)
(* The reuse of a connection: the wait and the send                        *)
(***************************************************************************)
\* C28: the wait for the HandshakeReused event and its 15 s timer are set up
\* before sendMessage is called: as soon as the reuse message is on its way
\* the wait is there, a matching event that comes before the timeout, be it
\* before sendMessage has returned, makes the wait succeed, and the
\* acceptance then goes on with the existing connection and no handshake.
C28_WaitBeforeSend ==
    /\ ReuseSends # {} =>
          /\ reuseWait.status \in {"pending", "accepted", "timedOut"}
          /\ reuseWait.timeoutMs = 15000
          /\ reuseWait.connectionRecord = effects[CHOOSE i \in ReuseSends : TRUE].connection
          /\ reuseWait.outOfBandRecord = effects[CHOOSE i \in ReuseSends : TRUE].record
    /\ (ReuseSends # {} /\ AwaitedEvent \in reuseWait.events) =>
          /\ reuseWait.status = "accepted"
          /\ call.pc \in {"reuseSending", "reuseAwait", "messages", "returned"}
          /\ call.pc \in {"messages", "returned"} =>
                /\ local.connectionRecord = local.existingConnection
                /\ Handshakes = {}
          /\ call.pc = "returned" => call.connectionRecord = ExistingConnectionId

C28_Witness ==
    /\ call.pc = "reuseSending"
    /\ ~reuseWait.sent
    /\ reuseWait.status = "accepted"
    /\ AwaitedEvent \in reuseWait.events

(***************************************************************************)
(* Acceptance that fails                                                   *)
(***************************************************************************)
\* C29: when acceptInvitation, called by receiveInvitation or by the user,
\* fails on a v1 Receiver record because no handshake protocol is supported,
\* no attached message is of a supported type or the invitation has no
\* services, nothing is undone: the record stays stored, in state
\* PrepareResponse; a later reception of an invitation with the id of a
\* Receiver record that is in PrepareResponse fails as a duplicate and
\* stores nothing.
C29_FailureKeepsRecord ==
    /\ (AcceptingV1 /\ call.pc = "failed") =>
          /\ call.error \in AcceptanceErrors
          /\ local.outOfBandRecord[1] \in store
          /\ local.outOfBandRecord[1].state = "PrepareResponse"
          /\ local.pre \ {r \in local.pre : r.id = local.outOfBandRecord[1].id}
                \subseteq store
    /\ (/\ ReceiveV1Call
        /\ ~config.isImplicit
        /\ \E r \in local.pre : /\ r.role = "Receiver"
                                  /\ r.state = "PrepareResponse"
                                  /\ InvitationId(r) = config.invitation[1].id)
       => /\ call.pc = "failed"
          /\ call.error = "InvitationAlreadyReceived"
          /\ store = local.pre

C29_Witness ==
    /\ ReceiveV1Call
    /\ call.pc = "failed"
    /\ call.error = "InvitationAlreadyReceived"
    /\ \E r \in local.pre :
          /\ r.role = "Receiver"
          /\ r.state = "PrepareResponse"
          /\ InvitationId(r) = config.invitation[1].id
          /\ r.outOfBandInvitation[1].handshakeProtocols = Some(<<TrustPing>>)
          /\ Len(findAllByOutOfBandId(r.id)) = 0

(***************************************************************************)
(* The order of the steps of deleteById                                    *)
(***************************************************************************)
\* the records the call found stored under the id it was given
DeleteTargets == {r \in local.pre : r.id = config.outOfBandId}

\* the calls of outOfBandService.deleteById the call has made
Deletions == {i \in 1..Len(effects) : effects[i].kind = "deleteById"}

\* C30: deleteById looks the record up first: with no record of the id it
\* fails with RecordNotFound, releases no routing keys and deletes nothing;
\* the routing keys are released before the record is deleted; when the
\* release fails the record is still stored and no deletion was made; a
\* record without a mediatorId is deleted with no release.
C30_LookupReleaseDelete ==
    call.op = "deleteById" =>
        /\ DeleteTargets = {} =>
              /\ call.pc = "failed" /\ call.error = "RecordNotFound"
              /\ RemoveRoutings = {} /\ Deletions = {}
              /\ store = local.pre
        /\ \A i \in RemoveRoutings, j \in Deletions : i < j
        /\ (call.pc = "failed" /\ call.error = "RemoveRoutingFailed") =>
              /\ DeleteTargets # {}
              /\ DeleteTargets \subseteq store
              /\ Deletions = {}
              /\ \A r \in DeleteTargets : IsDefined(r.mediatorId)
        /\ \A r \in DeleteTargets : ~IsDefined(r.mediatorId) =>
              /\ RemoveRoutings = {}
              /\ call.pc = "returned"
              /\ Cardinality(Deletions) = 1
              /\ r \notin store

C30_Witness ==
    /\ call.op = "deleteById" /\ call.pc = "failed"
    /\ call.error = "RemoveRoutingFailed"
    /\ \E r \in DeleteTargets : r \in store /\ IsDefined(r.mediatorId)
    /\ Deletions = {}

(***************************************************************************)
(* An agent that receives the invitation it created                        *)
(***************************************************************************)
\* the records of a role stored with an invitation id
RecordsOf(records, role, invitationId) ==
    {r \in records : r.role = role /\ InvitationId(r) = invitationId}

\* the records this agent created whose invitation the call in flight
\* receives as not implicit
ReceivedOwn ==
    {s \in local.pre : /\ call.op = "receiveInvitation"
                        /\ ~config.isImplicit
                        /\ config.invitation[1].type = "OutOfBandInvitation"
                        /\ s.role = "Sender"
                        /\ IsDefined(s.outOfBandInvitation)
                        /\ s.outOfBandInvitation[1] = config.invitation[1]}

\* C31: the duplicate query looks at Receiver records only. A reception of
\* the v1 invitation of a Sender record this agent created, with no Receiver
\* record of that id stored, is not rejected: the record is saved, and from
\* then on exactly one Sender record and one Receiver record with the id are
\* stored, the Sender record as it was. Receiving it again, with the
\* Receiver record stored, fails as a duplicate and stores nothing.
C31_SenderNotCounted ==
    \A s \in ReceivedOwn :
        LET id == InvitationId(s)
        IN /\ s \in store
           /\ RecordsOf(store, "Sender", id) = {s}
           /\ RecordsOf(local.pre, "Receiver", id) = {} =>
                 /\ call.error \notin ReceiveConfigurationErrors
                 /\ call.pc # "save" =>
                       /\ Cardinality(RecordsOf(store, "Receiver", id)) = 1
                       /\ \A r \in RecordsOf(store, "Receiver", id) :
                             /\ r.id # s.id
                             /\ r.outOfBandInvitation = s.outOfBandInvitation
                             /\ Effect("save", r.id, 0) = effects[1]
           /\ RecordsOf(local.pre, "Receiver", id) # {} =>
                 /\ call.pc = "failed"
                 /\ call.error = "InvitationAlreadyReceived"
                 /\ store = local.pre

C31_Witness ==
    /\ call.pc = "returned"
    /\ \E s \in ReceivedOwn :
          /\ s.state = "AwaitResponse"
          /\ RecordsOf(local.pre, "Receiver", InvitationId(s)) = {}
          /\ Cardinality(RecordsOf(store, "Receiver", InvitationId(s))) = 1
          /\ Cardinality(RecordsOf(store, "Sender", InvitationId(s))) = 1

====
